---------------------------- MODULE Spec2Model ----------------------------
(***************************************************************************)
(* DealMate web UI: the StackSmart optimizer (src/unnamed/part_008) and    *)
(* the fraud detection engine (src/src/lib/fraud-detection).               *)
(*                                                                         *)
(* Prices are integers in units of 1/Scale of the currency.  The only      *)
(* percentage used is 50, so every product currentPrice * (value / 100)    *)
(* of the source is exact, here and in IEEE doubles alike.                 *)
(***************************************************************************)
EXTENDS Integers, Sequences, FiniteSets, TLC

VARIABLES
    \* ---- StackOptimizer: one optimize call, followed position by position
    pc,            \* "idle" | "loop" | "post" | "alts" | "done"
    basePrice,     \* argument of optimize
    constraints,   \* argument of optimize
    deals,         \* filteredDeals handed to branchAndBound
    stack,         \* branchAndBound's explicit stack of nodes
    bestResult,    \* branchAndBound's bestResult; optimize's result
    elapsed,       \* last value read of Date.now() - startTime
    loopExit,      \* why the while loop ended: "none" | "empty" | "time"
    cacheKey,      \* optimize's cacheKey
    altIndex,      \* findAlternatives' loop counter i
    alternatives,  \* findAlternatives' alternatives
    usedCombinations,
    \* ---- StackOptimizer: the shared instance across calls
    memoCache,     \* cache key -> StackResult
    lastCall,      \* arguments and timing of the latest call
    lastResult,    \* what the latest call returned
    numCalls,
    \* ---- FraudDetectionEngine
    anomalyHeap,            \* MinHeap.heap of { dealId, anomalyScore }
    recordedScores,         \* history: every anomalyScore recorded, descending
    phishingTrie,           \* Trie: its nodes (paths of keys) and end marks
    patterns,               \* history: the lower-cased patterns added so far
    sellerReputationCache,  \* seller id -> Seller
    sellerUpdates,          \* history: the sellers passed to updateSellerReputation
    priceHistoryCache,      \* product id -> prices
    priceDay,               \* the latest reading of Date.now(), in days
    priceUpdates,           \* history: [productId, price, timestamp] of
                            \* every updatePriceHistory call
    userActivityCache,      \* user id -> timestamps
    clock,                  \* the latest reading of Date.now(), in ms
    userCalls,              \* history: [userId, time] of every call since
                            \* the cache was last cleared
    fraudOp,                \* the engine method called last
    fraudArgs,              \* its arguments
    fraudResult,            \* what it returned
    \* ---- DataCache
    dataCache,              \* Map key -> { data, timestamp }, in Map order
    cacheConfig,            \* maxSize and ttl
    lastSet,                \* history: key -> data and time of its last set
    cacheCall,              \* the method called last, its arguments and result
    \* ---- OfferActivationEngine
    activationQueue,        \* Map key -> promise of performActivation
    activationPromises,     \* the promises performActivation returned, one
                            \* per request sent
    activationCalls,        \* the activateOffer calls made so far
    \* ---- AuthProvider
    authToken,              \* localStorage's auth_token, Null when absent
    user,                   \* useState user
    loading,                \* useState loading
    authRequests,           \* the getUser calls awaited by this page
    authCall,               \* the function finished last and what the
                            \* backend answered
    pageLoads,              \* number of times the provider was mounted
    \* ---- AuthGuard
    guardPage,              \* the page load the guard was mounted on, 0
                            \* before it was ever mounted
    requireAuth,            \* prop requireAuth
    isAuthorized,           \* useState isAuthorized
    guardRender,            \* the latest render: what it returned and the
                            \* user, loading and isAuthorized it saw
    redirect                \* the path of the latest router.replace

vars == <<pc, basePrice, constraints, deals, stack, bestResult, elapsed,
          loopExit, cacheKey, altIndex, alternatives, usedCombinations,
          memoCache, lastCall, lastResult, numCalls,
          anomalyHeap, recordedScores, phishingTrie, patterns,
          sellerReputationCache, sellerUpdates, priceHistoryCache,
          priceDay, priceUpdates,
          userActivityCache, clock, userCalls,
          fraudOp, fraudArgs, fraudResult,
          dataCache, cacheConfig, lastSet, cacheCall,
          activationQueue, activationPromises, activationCalls,
          authToken, user, loading, authRequests, authCall, pageLoads,
          guardPage, requireAuth, isAuthorized, guardRender, redirect>>

searchVars == <<pc, basePrice, constraints, deals, stack, bestResult, elapsed,
                loopExit, cacheKey, altIndex, alternatives,
                usedCombinations>>
memoVars == <<memoCache, lastCall, lastResult, numCalls>>
optimizerVars == <<searchVars, memoVars>>
heapVars == <<anomalyHeap, recordedScores>>
trieVars == <<phishingTrie, patterns>>
priceVars == <<priceHistoryCache, priceDay, priceUpdates>>
cacheVars == <<sellerReputationCache, sellerUpdates, priceVars>>
callVars == <<fraudOp, fraudArgs, fraudResult>>
activityVars == <<userActivityCache, clock, userCalls>>
dataCacheVars == <<dataCache, cacheConfig, lastSet, cacheCall>>
offerVars == <<activationQueue, activationPromises, activationCalls>>
authVars == <<authToken, user, loading, authRequests, authCall, pageLoads>>
guardVars == <<guardPage, requireAuth, isAuthorized, guardRender, redirect>>
pageVars == <<authVars, guardVars>>
serviceVars == <<dataCacheVars, offerVars, pageVars>>
fraudVars == <<heapVars, trieVars, cacheVars, activityVars, callVars>>

-----------------------------------------------------------------------------
(* Bounds of the model *)

\* Longest list of deals handed to optimize.
MaxLen == 3
\* Longest list of deals / coupons handed to the shared optimizer instance.
MemoLen == 2
\* Number of calls made on the shared optimizer instance.
MaxCalls == 2

-----------------------------------------------------------------------------
(* Program constants *)

DefaultTimeLimit == 1000
DefaultMaxDeals == 5
AltMaxDeals == 5
AltTimeLimit == 500
AltRotations == 5
MaxAlternatives == 3

-----------------------------------------------------------------------------
(* Helpers *)

Min(a, b) == IF a < b THEN a ELSE b
Max(a, b) == IF a > b THEN a ELSE b

\* Price units per currency unit.
Scale == 2 * 2
P(x) == x * Scale

Last(s) == s[Len(s)]
Front(s) == SubSeq(s, 1, Len(s) - 1)

RECURSIVE SetMax(_)
SetMax(S) ==
    IF S = {} THEN 0
    ELSE LET x == CHOOSE y \in S : TRUE
             m == SetMax(S \ {x})
         IN  IF x > m THEN x ELSE m

-----------------------------------------------------------------------------
(* Deals.  An optional field that is absent (or falsy, which the source     *)
(* treats alike) is 0; stacksWith is absent when hasStacksWith is FALSE.    *)

MkDeal(id, type, value, valueType, minPurchase, maxDiscount, stackable, hasStacksWith, stacksWith, priority) ==
    [id |-> id, type |-> type, value |-> value, valueType |-> valueType,
     minPurchase |-> minPurchase, maxDiscount |-> maxDiscount,
     stackable |-> stackable, hasStacksWith |-> hasStacksWith,
     stacksWith |-> stacksWith, priority |-> priority]

DealPool ==
    { MkDeal("a", "coupon",   P(10), "fixed",      0, 0, TRUE, FALSE, {}, 1),
      MkDeal("a", "coupon",   50,    "percentage", 0, 0, TRUE, FALSE, {}, 2),
      MkDeal("b", "discount", P(10), "fixed",      0, 0, TRUE, FALSE, {}, 1),
      MkDeal("c", "cashback", P(10), "fixed",      0, 0, TRUE, FALSE, {}, 1),
      MkDeal("d", "cashback", 50,    "percentage", 0, P(20), TRUE, TRUE,
             {"coupon", "cashback"}, 3),
      MkDeal("e", "gift-card", P(40), "fixed", P(50), 0, FALSE, FALSE, {}, 2),
      MkDeal("f", "coupon",   P(5),  "fixed",      0, 0, TRUE, FALSE, {}, 1) }

DistinctIds(s) == \A i, j \in 1..Len(s) : i # j => s[i].id # s[j].id

DealListsUpTo(n) ==
    { s \in UNION { [1..k -> DealPool] : k \in 0..n } : DistinctIds(s) }

BasePrices == { P(100), P(20), P(5), 0 }

\* OptimizationConstraints; 0 and {} stand for an absent (or falsy) field.
MkConstraints(maxDeals, preferredTypes, excludeTypes, minSavings, timeLimit) ==
    [maxDeals |-> maxDeals, preferredTypes |-> preferredTypes,
     excludeTypes |-> excludeTypes, minSavings |-> minSavings,
     timeLimit |-> timeLimit]

NoConstraints == MkConstraints(0, {}, {}, 0, 0)

ConstraintChoices ==
    { NoConstraints,
      MkConstraints(1, {}, {}, 0, 0),
      MkConstraints(2, {}, {}, 0, 0),
      MkConstraints(0, {"coupon", "cashback"}, {}, 0, 0),
      MkConstraints(0, {}, {"discount"}, 0, 0),
      MkConstraints(0, {}, {}, P(25), 0),
      MkConstraints(0, {}, {}, 0, AltTimeLimit) }

-----------------------------------------------------------------------------
(* StackOptimizer: pure helpers *)

\* applyDeal without the clamp at 0
ApplyDeal_Unclamped(currentPrice, deal, base) ==
    IF deal.minPurchase # 0 /\ currentPrice < deal.minPurchase
    THEN currentPrice
    ELSE IF deal.valueType = "percentage"
    THEN currentPrice - (currentPrice * deal.value) \div 100
    ELSE currentPrice - deal.value

\* applyDeal
ApplyDeal(currentPrice, deal, base) ==
    IF deal.minPurchase # 0 /\ currentPrice < deal.minPurchase
    THEN currentPrice
    ELSE LET pct == (currentPrice * deal.value) \div 100
             discount ==
                 IF deal.valueType = "percentage"
                 THEN IF deal.maxDiscount # 0
                      THEN Min(pct, deal.maxDiscount)
                      ELSE pct
                 ELSE deal.value
         IN  Max(0, currentPrice - discount)

\* calculateDealValue
CalculateDealValue(currentPrice, deal, base) ==
    currentPrice - ApplyDeal(currentPrice, deal, base)

\* calculateBound: the for loop from i (0-based), with its break
RECURSIVE BoundLoop(_, _, _, _, _)
BoundLoop(i, bound, price, ds, currentPrice) ==
    IF i >= Len(ds) THEN bound
    ELSE LET potential == CalculateDealValue(price, ds[i + 1], currentPrice)
         IN  IF price - potential <= 0
             THEN bound + potential
             ELSE BoundLoop(i + 1, bound + potential, price - potential,
                            ds, currentPrice)

CalculateBound(currentPrice, ds, startIndex) ==
    BoundLoop(startIndex, 0, currentPrice, ds, currentPrice)

\* canStackSameType
CanStackSameType_Any(type) == TRUE
CanStackSameType(type) == type \in {"cashback", "points"}

\* canStackDeal
CanStackDeal(deal, existingDeals) ==
    /\ ~(~deal.stackable /\ Len(existingDeals) > 0)
    /\ \A k \in 1..Len(existingDeals) :
          LET existing == existingDeals[k] IN
          /\ existing.stackable
          /\ ~(existing.hasStacksWith /\ deal.type \notin existing.stacksWith)
          /\ ~(deal.hasStacksWith /\ existing.type \notin deal.stacksWith)
          /\ ~(existing.type = deal.type /\ ~CanStackSameType(deal.type))

\* generateBreakdown (dealName and reason are display strings, left out)
RECURSIVE BreakdownLoop(_, _, _, _)
BreakdownLoop(k, currentPrice, ds, base) ==
    IF k > Len(ds) THEN << >>
    ELSE LET newPrice == ApplyDeal(currentPrice, ds[k], base)
             savings == currentPrice - newPrice
         IN  << [dealId |-> ds[k].id, savings |-> savings,
                 priceAfter |-> newPrice, applied |-> savings > 0] >>
             \o BreakdownLoop(k + 1, newPrice, ds, base)

GenerateBreakdown(base, ds) == BreakdownLoop(1, base, ds, base)

\* sortDeals' comparator: negative when a sorts before b
CompareDeals(a, b, base) ==
    IF a.priority # b.priority
    THEN b.priority - a.priority
    ELSE CalculateDealValue(base, b, base) - CalculateDealValue(base, a, base)

\* Array.prototype.sort is stable: insert each deal behind its equals
RECURSIVE InsertDeal(_, _, _)
InsertDeal(d, sorted, base) ==
    IF sorted = << >> THEN << d >>
    ELSE IF CompareDeals(d, Head(sorted), base) < 0
         THEN << d >> \o sorted
         ELSE << Head(sorted) >> \o InsertDeal(d, Tail(sorted), base)

RECURSIVE SortFrom(_, _, _, _)
SortFrom(k, ds, sorted, base) ==
    IF k > Len(ds) THEN sorted
    ELSE SortFrom(k + 1, ds, InsertDeal(ds[k], sorted, base), base)

\* sortDeals
SortDeals(ds, base) == SortFrom(1, ds, << >>, base)

RECURSIVE FilterDeals(_, _)
FilterDeals(ds, types) ==
    IF ds = << >> THEN << >>
    ELSE (IF Head(ds).type \in types THEN << Head(ds) >> ELSE << >>)
         \o FilterDeals(Tail(ds), types)

AllTypes == {"coupon", "cashback", "points", "discount", "gift-card"}

\* applyConstraints
ApplyConstraints(ds, c) ==
    LET f1 == IF c.preferredTypes # {}
              THEN FilterDeals(ds, c.preferredTypes) ELSE ds
    IN  IF c.excludeTypes # {}
        THEN FilterDeals(f1, AllTypes \ c.excludeTypes) ELSE f1

-----------------------------------------------------------------------------
(* StackOptimizer.branchAndBound *)

EmptyResult(base) ==
    [deals |-> << >>, totalSavings |-> 0, finalPrice |-> base,
     breakdown |-> << >>, warnings |-> FALSE]

RootNode(base, ds) ==
    [index |-> 0, currentDeals |-> << >>, currentPrice |-> base,
     bound |-> CalculateBound(base, ds, 0)]

\* The bound stored on the node pushed after including a deal (line 385)
IncludeBound(newPrice, ds, nextIndex, base) ==
    CalculateBound(newPrice, ds, nextIndex)

\* The node is pruned (line 357)
Pruned(node, best) == node.bound <= best.totalSavings

\* One iteration of the while loop body (lines 354-399) on search state
\* s = [stack, best].
LoopBody(s, ds, base, maxDeals) ==
    LET node == Last(s.stack)
        rest == Front(s.stack)
    IN
    IF Pruned(node, s.best) THEN [stack |-> rest, best |-> s.best]
    ELSE
      LET tryInclude == node.index < Len(ds)
                        /\ Len(node.currentDeals) < maxDeals
          deal == ds[node.index + 1]
          canStack == tryInclude /\ CanStackDeal(deal, node.currentDeals)
          newPrice == ApplyDeal(node.currentPrice, deal, base)
          newDeals == Append(node.currentDeals, deal)
          savings == base - newPrice
          best1 == IF canStack /\ savings > s.best.totalSavings
                   THEN [deals |-> newDeals, totalSavings |-> savings,
                         finalPrice |-> newPrice,
                         breakdown |-> GenerateBreakdown(base, newDeals),
                         warnings |-> FALSE]
                   ELSE s.best
          inc == IF canStack /\ node.index + 1 < Len(ds)
                 THEN << [index |-> node.index + 1,
                          currentDeals |-> newDeals,
                          currentPrice |-> newPrice,
                          bound |-> IncludeBound(newPrice, ds,
                                                 node.index + 1, base)] >>
                 ELSE << >>
          exc == IF node.index + 1 < Len(ds)
                 THEN << [index |-> node.index + 1,
                          currentDeals |-> node.currentDeals,
                          currentPrice |-> node.currentPrice,
                          bound |-> node.bound] >>
                 ELSE << >>
      IN  [stack |-> rest \o inc \o exc, best |-> best1]

\* The while loop (lines 353-400) run to its end.  budget is the number of
\* iterations the clock allows before Date.now() - startTime reaches
\* timeLimit; NoLimit when it never does.
NoLimit == 0 - 1

RECURSIVE RunLoop(_, _, _, _, _)
RunLoop(s, ds, base, maxDeals, budget) ==
    IF s.stack = << >> \/ budget = 0 THEN s
    ELSE RunLoop(LoopBody(s, ds, base, maxDeals), ds, base, maxDeals,
                 IF budget = NoLimit THEN NoLimit ELSE budget - 1)

\* The test of line 403, on the clock reading taken after the loop
TimeLimitReached(elapsedNow, timeLimit) == elapsedNow >= timeLimit

\* branchAndBound as one call.  timing.late: the clock reaches timeLimit
\* between the loop's end and the test of line 403.
BranchAndBound(base, ds, maxDeals, timing) ==
    LET s == RunLoop([stack |-> << RootNode(base, ds) >>,
                      best |-> EmptyResult(base)],
                     ds, base, maxDeals, timing.budget)
    IN  [s.best EXCEPT !.warnings = (s.stack # << >>) \/ timing.late]

-----------------------------------------------------------------------------
(* StackOptimizer: keys *)

\* The ids of the model in the order String.prototype sort gives them
IdOrder == << "a", "b", "c", "coupon-0", "coupon-1", "d", "e", "f" >>

\* deals.map(d => d.id).sort(): the ids are distinct within one list
SortedIds(ds) ==
    SelectSeq(IdOrder, LAMBDA id : \E k \in 1..Len(ds) : ds[k].id = id)

\* getDealComboKey: the sorted ids, joined by '-' in the source
GetDealComboKey(ds) == SortedIds(ds)

\* getCacheKey: `${basePrice}-${dealIds}-${JSON.stringify(constraints)}`
GetCacheKey(base, ds, c) == << base, SortedIds(ds), c >>

-----------------------------------------------------------------------------
(* StackOptimizer.findAlternatives *)

\* [...deals.slice(i), ...deals.slice(0, i)]
Reorder(ds, i) == SubSeq(ds, i + 1, Len(ds)) \o SubSeq(ds, 1, i)

\* The maxDeals handed to branchAndBound by findAlternatives (line 526)
AlternativeMaxDeals(c) == AltMaxDeals

\* One iteration of the for loop (lines 524-535) on a = [list, used]
AlternativeStep(a, altResult) ==
    LET comboKey == GetDealComboKey(altResult.deals) IN
    IF comboKey \notin a.used /\ altResult.totalSavings > 0
    THEN [list |-> Append(a.list, altResult), used |-> a.used \cup {comboKey}]
    ELSE a

\* alternatives.sort((a, b) => b.totalSavings - a.totalSavings), stable
RECURSIVE InsertResult(_, _)
InsertResult(r, sorted) ==
    IF sorted = << >> THEN << r >>
    ELSE IF Head(sorted).totalSavings - r.totalSavings < 0
         THEN << r >> \o sorted
         ELSE << Head(sorted) >> \o InsertResult(r, Tail(sorted))

RECURSIVE SortResultsFrom(_, _, _)
SortResultsFrom(k, rs, sorted) ==
    IF k > Len(rs) THEN sorted
    ELSE SortResultsFrom(k + 1, rs, InsertResult(rs[k], sorted))

SortAlternatives(rs) == SortResultsFrom(1, rs, << >>)

\* The whole for loop, every branchAndBound call under the same timing
RECURSIVE AlternativesFrom(_, _, _, _, _, _)
AlternativesFrom(i, a, base, ds, c, timing) ==
    IF i >= Min(Len(ds), AltRotations) \/ Len(a.list) >= MaxAlternatives
    THEN a
    ELSE AlternativesFrom(i + 1,
             AlternativeStep(a, BranchAndBound(base, Reorder(ds, i),
                                               AlternativeMaxDeals(c), timing)),
             base, ds, c, timing)

FindAlternatives(base, ds, best, c, timing) ==
    SortAlternatives(
        AlternativesFrom(0, [list |-> << >>,
                             used |-> {GetDealComboKey(best.deals)}],
                         base, ds, c, timing).list)

-----------------------------------------------------------------------------
(* StackOptimizer.optimize *)

\* constraints.timeLimit || 1000
TimeLimitOf(c) == IF c.timeLimit # 0 THEN c.timeLimit ELSE DefaultTimeLimit

\* constraints.maxDeals || 5
MaxDealsOf(c) == IF c.maxDeals # 0 THEN c.maxDeals ELSE DefaultMaxDeals

\* The StackResult handed back: alternativeStacks is << >> when unset
MkResult(best, alts) ==
    [deals |-> best.deals, totalSavings |-> best.totalSavings,
     finalPrice |-> best.finalPrice, breakdown |-> best.breakdown,
     warnings |-> best.warnings, alternativeStacks |-> alts]

\* optimize on a cache miss (lines 292-318), as one call
OptimizeFresh(base, dl, c, timing, altTiming) ==
    LET filtered == ApplyConstraints(SortDeals(dl, base), c)
        best == BranchAndBound(base, filtered, MaxDealsOf(c), timing)
    IN  MkResult(best,
                 IF best.totalSavings > 0
                 THEN FindAlternatives(base, filtered, best, c, altTiming)
                 ELSE << >>)

-----------------------------------------------------------------------------
(* FraudDetectionEngine: MinHeap.  Indices are 0-based as in the source;   *)
(* element i of the array is heap[i + 1].                                   *)

NaN == 0 - 1

\* The compareFn handed to MinHeap (line 170): b.anomalyScore - a.anomalyScore
CompareAnomalies_Ascending(a, b) == a.anomalyScore - b.anomalyScore
CompareAnomalies(a, b) == b.anomalyScore - a.anomalyScore

Swap(heap, i, j) ==
    [heap EXCEPT ![i + 1] = heap[j + 1], ![j + 1] = heap[i + 1]]

\* MinHeap.heapifyUp
RECURSIVE HeapifyUp(_, _)
HeapifyUp(heap, index) ==
    LET parentIndex == (index - 1) \div 2 IN
    IF parentIndex >= 0
       /\ CompareAnomalies(heap[index + 1], heap[parentIndex + 1]) < 0
    THEN HeapifyUp(Swap(heap, index, parentIndex), parentIndex)
    ELSE heap

\* MinHeap.heapifyDown
RECURSIVE HeapifyDown(_, _)
HeapifyDown(heap, index) ==
    LET leftChild == 2 * index + 1
        rightChild == 2 * index + 2
        s1 == IF leftChild < Len(heap)
                 /\ CompareAnomalies(heap[leftChild + 1], heap[index + 1]) < 0
              THEN leftChild ELSE index
        smallest == IF rightChild < Len(heap)
                       /\ CompareAnomalies(heap[rightChild + 1], heap[s1 + 1]) < 0
                    THEN rightChild ELSE s1
    IN  IF smallest # index
        THEN HeapifyDown(Swap(heap, index, smallest), smallest)
        ELSE heap

\* MinHeap.insert
HeapInsert(heap, value) == HeapifyUp(Append(heap, value), Len(heap))

\* MinHeap.extractMin on a non-empty heap: [min, heap]
ExtractMin(heap) ==
    IF Len(heap) = 1 THEN [min |-> heap[1], heap |-> << >>]
    ELSE [min |-> heap[1],
          heap |-> HeapifyDown([Front(heap) EXCEPT ![1] = Last(heap)], 0)]

\* getTopAnomalies' for loop (lines 361-364) on t = [anomalies, heap]
RECURSIVE ExtractLoop(_, _, _)
ExtractLoop(i, count, t) ==
    IF i < count /\ Len(t.heap) > 0
    THEN LET x == ExtractMin(t.heap)
         IN  ExtractLoop(i + 1, count,
                         [anomalies |-> Append(t.anomalies, x.min),
                          heap |-> x.heap])
    ELSE t

\* anomalies.forEach(a => this.anomalyHeap.insert(a)) (line 366)
RECURSIVE ReinsertFrom(_, _, _)
ReinsertFrom(k, anomalies, heap) ==
    IF k > Len(anomalies) THEN heap
    ELSE ReinsertFrom(k + 1, anomalies, HeapInsert(heap, anomalies[k]))

\* getTopAnomalies: [anomalies, heap]
GetTopAnomalies(heap, count) ==
    LET t == ExtractLoop(0, count, [anomalies |-> << >>, heap |-> heap])
    IN  [anomalies |-> t.anomalies,
         heap |-> ReinsertFrom(1, t.anomalies, t.heap)]

-----------------------------------------------------------------------------
(* FraudDetectionEngine: fake deals.  Percentages are whole numbers: the    *)
(* prices of the model make (originalPrice - discountedPrice) * 100 a       *)
(* multiple of originalPrice.  Confidences are in hundredths.               *)

\* A Deal of the engine: the fields it reads
MkFraudDeal(id, originalPrice, discountedPrice, category, url) ==
    [id |-> id, originalPrice |-> originalPrice,
     discountedPrice |-> discountedPrice, category |-> category, url |-> url]

Verdict(fraudType, confidence) ==
    [isFraudulent |-> TRUE, fraudType |-> fraudType, confidence |-> confidence]

NotFraudulent == [isFraudulent |-> FALSE, fraudType |-> "", confidence |-> 0]

\* this.categoryThresholds (lines 163-169), times 100
CategoryThresholds ==
    [electronics |-> 70, fashion |-> 90, home |-> 80, food |-> 60,
     default |-> 85]

\* Names every object literal inherits from Object.prototype
InheritedKeys ==
    { "constructor", "toString", "valueOf", "hasOwnProperty", "__proto__" }

\* (this.categoryThresholds[deal.category] || this.categoryThresholds.default)
\* * 100 (lines 225-226): an inherited member is truthy and not a number,
\* and times 100 it is NaN
ThresholdPercentage(category) ==
    IF category \in DOMAIN CategoryThresholds THEN CategoryThresholds[category]
    ELSE IF category \in InheritedKeys THEN NaN
    ELSE CategoryThresholds["default"]

\* discountPercentage (line 224), for originalPrice > 0
DiscountPercentage(deal) ==
    ((deal.originalPrice - deal.discountedPrice) * 100) \div deal.originalPrice

\* discountPercentage > thresholdPercentage (line 228).  With originalPrice
\* = 0 and discountedPrice >= 0 the percentage is NaN or -Infinity, and with
\* a NaN threshold the comparison is false.
ExceedsThreshold(deal) ==
    /\ deal.originalPrice > 0
    /\ ThresholdPercentage(deal.category) # NaN
    /\ DiscountPercentage(deal) > ThresholdPercentage(deal.category)

AnomalyScore(deal) ==
    DiscountPercentage(deal) - ThresholdPercentage(deal.category)

\* Math.min(anomalyScore / 20, 0.95), in hundredths
FakeDealConfidence(anomalyScore) == Min(anomalyScore * 5, 95)

\* detectFakeDeals' for loop on r = [results, heap]
RECURSIVE FakeDealsFrom(_, _, _)
FakeDealsFrom(k, ds, r) ==
    IF k > Len(ds) THEN r
    ELSE FakeDealsFrom(k + 1, ds,
            IF ExceedsThreshold(ds[k])
            THEN [results |-> Append(r.results,
                      Verdict("fake_deal",
                              FakeDealConfidence(AnomalyScore(ds[k])))),
                  heap |-> HeapInsert(r.heap,
                      [dealId |-> ds[k].id,
                       anomalyScore |-> AnomalyScore(ds[k])])]
            ELSE r)

\* detectFakeDeals: [results, heap]
DetectFakeDeals(heap, ds) ==
    FakeDealsFrom(1, ds, [results |-> << >>, heap |-> heap])

-----------------------------------------------------------------------------
(* FraudDetectionEngine: Trie.  A string is the sequence of its UTF-16      *)
(* code units; "HI" and "LO" stand for the high and the low surrogate of a  *)
(* character outside the basic plane.  A node is the sequence of the keys   *)
(* on its path from the root, a key being the code units of one Map key.    *)
(* Nodes are never removed, so a trie is given by its nodes with            *)
(* isEndOfPattern set: its nodes are their prefixes, and the root.             *)

\* The lower-case letter of every upper-case letter
LowerOf ==
    [A |-> "a", B |-> "b", C |-> "c", D |-> "d", E |-> "e", F |-> "f",
     G |-> "g", H |-> "h", I |-> "i", J |-> "j", K |-> "k", L |-> "l",
     M |-> "m", N |-> "n", O |-> "o", P |-> "p", Q |-> "q", R |-> "r",
     S |-> "s", T |-> "t", U |-> "u", V |-> "v", W |-> "w", X |-> "x",
     Y |-> "y", Z |-> "z"]

LowerUnit(u) == IF u \in DOMAIN LowerOf THEN LowerOf[u] ELSE u

\* String.prototype.toLowerCase
RECURSIVE LowerFrom(_, _)
LowerFrom(k, text) ==
    IF k > Len(text) THEN << >>
    ELSE <<LowerUnit(text[k])>> \o LowerFrom(k + 1, text)

ToLowerCase(text) == LowerFrom(1, text)

\* The values of `for (const char of word)`: a surrogate pair is one value
RECURSIVE CodePointsFrom(_, _)
CodePointsFrom(k, word) ==
    IF k > Len(word) THEN << >>
    ELSE IF word[k] = "HI" /\ k < Len(word) /\ word[k + 1] = "LO"
         THEN << <<word[k], word[k + 1]>> >> \o CodePointsFrom(k + 2, word)
         ELSE << <<word[k]>> >> \o CodePointsFrom(k + 1, word)

EmptyTrie == {}

\* Trie.insert: walks down from the root, creating the missing children,
\* and sets isEndOfPattern on the last node
TrieInsert(trie, word) == trie \cup { CodePointsFrom(1, word) }

\* The node reached from the root along text[from..to], one code unit per
\* key: some inserted word passes through it
HasNode(trie, text, from, to) ==
    \E w \in trie : /\ Len(w) >= to - from + 1
                    /\ \A j \in from..to : w[j - from + 1] = <<text[j]>>

\* isEndOfPattern of that node: an inserted word ends at it
IsEndOfPattern(trie, text, from, to) ==
    \E w \in trie : /\ Len(w) = to - from + 1
                    /\ \A j \in from..to : w[j - from + 1] = <<text[j]>>

\* Trie.searchFromIndex: the loop at index i (1-based), current being the
\* node reached along text[startIndex..i-1]
RECURSIVE SearchLoop(_, _, _, _)
SearchLoop(trie, text, startIndex, i) ==
    IF i > Len(text) THEN FALSE
    ELSE IF ~HasNode(trie, text, startIndex, i) THEN FALSE
    ELSE IF IsEndOfPattern(trie, text, startIndex, i) THEN TRUE
    ELSE SearchLoop(trie, text, startIndex, i + 1)

SearchFromIndex(trie, text, startIndex) ==
    SearchLoop(trie, text, startIndex, startIndex)

\* Trie.search
TrieSearch(trie, text) ==
    \E i \in 1..Len(text) : SearchFromIndex(trie, text, i)

\* initializePhishingPatterns' list
BuiltInPatterns ==
    <<
      << "b", "i", "t", ".", "l", "y", "/", "s", "c", "a", "m" >>,
      << "t", "i", "n", "y", "u", "r", "l", ".", "c", "o", "m", "/", "f",
         "a", "k", "e" >>,
      << "p", "h", "i", "s", "h", "i", "n", "g", "-", "s", "i", "t", "e",
         ".", "c", "o", "m" >>,
      << "a", "m", "a", "z", "o", "m", ".", "c", "o", "m" >>,
      << "a", "m", "a", "z", "0", "n", ".", "c", "o", "m" >>,
      << "f", "l", "i", "p", "k", "r", "t", ".", "c", "o", "m" >>,
      << "p", "a", "y", "p", "a", "l", "-", "s", "e", "c", "u", "r", "e",
         ".", "f", "a", "k", "e" >>,
      << "b", "a", "n", "k", "i", "n", "g", "-", "l", "o", "g", "i", "n",
         ".", "p", "h", "i", "s", "h" >>,
      << "f", "r", "e", "e", "-", "i", "p", "h", "o", "n", "e", "-", "w",
         "i", "n", "n", "e", "r" >>,
      << "c", "l", "i", "c", "k", "-", "h", "e", "r", "e", "-", "n", "o",
         "w", ".", "s", "u", "s", "p", "i", "c", "i", "o", "u", "s" >>,
      << "u", "r", "g", "e", "n", "t", "-", "a", "c", "t", "i", "o", "n",
         "-", "r", "e", "q", "u", "i", "r", "e", "d" >>,
      << "v", "e", "r", "i", "f", "y", "-", "a", "c", "c", "o", "u", "n",
         "t", ".", "s", "c", "a", "m" >>
    >>

RECURSIVE InsertAllFrom(_, _, _)
InsertAllFrom(k, words, trie) ==
    IF k > Len(words) THEN trie
    ELSE InsertAllFrom(k + 1, words, TrieInsert(trie, words[k]))

\* initializePhishingPatterns
InitialTrie == InsertAllFrom(1, BuiltInPatterns, EmptyTrie)

\* addPhishingPattern
AddPattern(trie, pattern) == TrieInsert(trie, ToLowerCase(pattern))

\* detectPhishingLinks
RECURSIVE PhishingLinksFrom(_, _, _)
PhishingLinksFrom(k, urls, trie) ==
    IF k > Len(urls) THEN << >>
    ELSE (IF TrieSearch(trie, ToLowerCase(urls[k]))
          THEN << Verdict("phishing_link", 95) >> ELSE << >>)
         \o PhishingLinksFrom(k + 1, urls, trie)

DetectPhishingLinks(trie, urls) == PhishingLinksFrom(1, urls, trie)

-----------------------------------------------------------------------------
(* FraudDetectionEngine: sellers and price history.  Ratings are in tenths, *)
(* timestamps in days relative to the construction of the engine.           *)

\* initializeSellerData
InitialSellers ==
    [seller1 |-> [rating |-> 48, reviewCount |-> 1250],
     seller2 |-> [rating |-> 45, reviewCount |-> 890],
     seller3 |-> [rating |-> 21, reviewCount |-> 12],
     seller4 |-> [rating |-> 32, reviewCount |-> 25],
     seller5 |-> [rating |-> 49, reviewCount |-> 5420]]

\* detectCounterfeitProducts' for loop
RECURSIVE CounterfeitFrom(_, _, _)
CounterfeitFrom(k, sellerIds, cache) ==
    IF k > Len(sellerIds) THEN << >>
    ELSE LET rest == CounterfeitFrom(k + 1, sellerIds, cache) IN
         IF sellerIds[k] \notin DOMAIN cache THEN rest
         ELSE LET seller == cache[sellerIds[k]] IN
              IF seller.rating < 35 \/ seller.reviewCount < 50
              THEN << Verdict("counterfeit_product",
                              IF seller.rating < 25 THEN 90 ELSE 70) >> \o rest
              ELSE rest

\* detectCounterfeitProducts
DetectCounterfeitProducts(cache, sellerIds) ==
    CounterfeitFrom(1, sellerIds, cache)

PricePoint(price, timestamp) == [price |-> price, timestamp |-> timestamp]

\* initializePriceHistory
InitialPriceHistory ==
    [product1 |-> << PricePoint(1000, 0 - 7), PricePoint(1050, 0 - 5),
                     PricePoint(980, 0 - 3), PricePoint(1020, 0 - 1) >>,
     product2 |-> << PricePoint(500, 0 - 10), PricePoint(520, 0 - 7),
                     PricePoint(510, 0 - 3), PricePoint(1500, 0) >>]

\* [...numbers].sort((a, b) => a - b)
InsertNumber(x, sorted) ==
    LET k == Cardinality({ j \in 1..Len(sorted) : sorted[j] <= x })
    IN  SubSeq(sorted, 1, k) \o <<x>> \o SubSeq(sorted, k + 1, Len(sorted))
RECURSIVE SortNumbersFrom(_, _)
SortNumbersFrom(k, numbers) ==
    IF k > Len(numbers) THEN << >>
    ELSE InsertNumber(numbers[k], SortNumbersFrom(k + 1, numbers))

\* calculateMedian, doubled so that it stays whole
TwiceMedian(numbers) ==
    LET sorted == SortNumbersFrom(1, numbers)
        mid == Len(sorted) \div 2
    IN  IF Len(sorted) % 2 = 0 THEN sorted[mid] + sorted[mid + 1]
        ELSE 2 * sorted[mid + 1]

Abs(x) == IF x < 0 THEN 0 - x ELSE x

\* detectPriceManipulation, for a positive median; the confidence
\* Math.min(deviation * 2, 0.95) is kept in whole hundredths
DetectPriceManipulation(cache, productId, currentPrice) ==
    IF productId \notin DOMAIN cache \/ Len(cache[productId]) < 3
    THEN NotFraudulent
    ELSE LET prices == [k \in 1..Len(cache[productId]) |->
                            cache[productId][k].price]
             median2 == TwiceMedian(prices)
             deviation2 == Abs(2 * currentPrice - median2)
         IN  IF deviation2 * 10 > 3 * median2
             THEN Verdict("price_manipulation",
                          Min((deviation2 * 200) \div median2, 95))
             ELSE NotFraudulent

\* Keep only last 30 days of history (lines 467-469), in days
HistoryDays == 30

\* p.timestamp > thirtyDaysAgo
IsInHistory_AnyAge(thirtyDaysAgo, timestamp) == TRUE
IsInHistory(thirtyDaysAgo, timestamp) == timestamp > thirtyDaysAgo

\* updatePriceHistory at clock reading t, in days
UpdatePriceHistory(cache, productId, price, t) ==
    LET history == IF productId \in DOMAIN cache THEN cache[productId]
                   ELSE << >>
        pushed == Append(history, PricePoint(price, t))
        thirtyDaysAgo == t - HistoryDays
        Keep(p) == IsInHistory(thirtyDaysAgo, p.timestamp)
    IN  [x \in DOMAIN cache \cup { productId } |->
            IF x = productId THEN SelectSeq(pushed, Keep) ELSE cache[x]]

\* detectFraud's guard `if (sellerId)`: undefined and "" are falsy
SellerGiven(sellerId) == sellerId # ""

\* if (priceManipulationResult.isFraudulent) results.push(...) (lines 209-211)
PushIfFraudulent_Always(results, result) == Append(results, result)
PushIfFraudulent(results, result) ==
    IF result.isFraudulent THEN Append(results, result) ELSE results

\* detectFraud: [results, heap]
DetectFraud(heap, trie, sellers, history, deal, sellerId) ==
    LET fake == DetectFakeDeals(heap, <<deal>>)
        counterfeit == IF SellerGiven(sellerId)
                       THEN DetectCounterfeitProducts(sellers, <<sellerId>>)
                       ELSE << >>
        phishing == DetectPhishingLinks(trie, <<deal.url>>)
        price == DetectPriceManipulation(history, deal.id, deal.originalPrice)
    IN  [results |-> PushIfFraudulent(
                         fake.results \o counterfeit \o phishing, price),
         heap |-> fake.heap]

-----------------------------------------------------------------------------
(* FraudDetectionEngine: user behaviour.  Times are in milliseconds,        *)
(* confidences in whole hundredths.                                         *)

RapidWindow == 1000
RapidLimit == 10
ActivityWindow == 60000
ActivityLimit == 100

\* new Map(): no user has an entry
NoActivity == [u \in {} |-> << >>]

\* now - ts < 60000 (line 327)
IsRecent(t, ts) == t - ts < ActivityWindow

\* ts > oneSecondAgo (line 332)
IsRapidAction_Inclusive(oneSecondAgo, ts) == ts >= oneSecondAgo
IsRapidAction(oneSecondAgo, ts) == ts > oneSecondAgo

\* detectSuspiciousUserBehavior at clock reading t: [cache, result]
DetectSuspiciousUserBehavior(cache, userId, t) ==
    LET userTimestamps ==
            (IF userId \in DOMAIN cache THEN cache[userId] ELSE << >>)
            \o <<t>>
        KeepRecent(ts) == IsRecent(t, ts)
        recentTimestamps == SelectSeq(userTimestamps, KeepRecent)
        oneSecondAgo == t - RapidWindow
        IsRapid(ts) == IsRapidAction(oneSecondAgo, ts)
        rapidActions == Len(SelectSeq(recentTimestamps, IsRapid))
    IN  [cache |-> [u \in DOMAIN cache \cup { userId } |->
                       IF u = userId THEN recentTimestamps ELSE cache[u]],
         result |->
            IF rapidActions > RapidLimit
            THEN Verdict("suspicious_behavior",
                         Min((rapidActions * 100) \div 15, 95))
            ELSE IF Len(recentTimestamps) > ActivityLimit
            THEN Verdict("bot_behavior", 85)
            ELSE NotFraudulent]

\* The arguments of the last call on the engine
MkArgs(ds, sellerId, urls, pattern, count) ==
    [deals |-> ds, sellerId |-> sellerId, urls |-> urls, pattern |-> pattern,
     count |-> count]

NoArgs == MkArgs(<< >>, "", << >>, << >>, 0)

-----------------------------------------------------------------------------
(* DataCache.  The Map is the sequence of its entries in insertion order;   *)
(* times are in milliseconds.                                               *)

\* constructor(maxSize = 100, ttl = 5 * 60 * 1000)
DefaultMaxSize == 100
DefaultTtl == 300000

\* get's null
Null == "null"

CacheEntry(key, data, timestamp) ==
    [key |-> key, data |-> data, timestamp |-> timestamp]

CacheKeys(cache) == { cache[k].key : k \in 1..Len(cache) }

\* Map.prototype.get: the index of the key's entry, 0 when it has none
IndexOfKey(cache, key) ==
    IF key \in CacheKeys(cache)
    THEN CHOOSE k \in 1..Len(cache) : cache[k].key = key
    ELSE 0

\* Map.prototype.delete
DeleteKey(cache, key) == SelectSeq(cache, LAMBDA e : e.key # key)

\* Map.prototype.set: an existing key keeps its place
SetKey(cache, entry) ==
    IF entry.key \in CacheKeys(cache)
    THEN [cache EXCEPT ![IndexOfKey(cache, entry.key)] = entry]
    ELSE Append(cache, entry)

\* Array.from(entries).sort((a, b) => a.timestamp - b.timestamp)[0] on a
\* non-empty Map: the sort is stable, so it is the first of the entries with
\* the least timestamp
OldestEntry_Newest(cache) ==
    cache[CHOOSE k \in 1..Len(cache) :
            \A j \in 1..Len(cache) :
                \/ cache[k].timestamp > cache[j].timestamp
                \/ cache[k].timestamp = cache[j].timestamp /\ k <= j]
OldestEntry(cache) ==
    cache[CHOOSE k \in 1..Len(cache) :
            \A j \in 1..Len(cache) :
                \/ cache[k].timestamp < cache[j].timestamp
                \/ cache[k].timestamp = cache[j].timestamp /\ k <= j]

\* this.cache.size >= this.maxSize (line 253)
AtCapacity(cache, config) == Len(cache) >= config.maxSize

\* DataCache.set at clock reading t
CacheSet(cache, config, key, data, t) ==
    LET evicted == IF AtCapacity(cache, config) /\ Len(cache) > 0
                   THEN DeleteKey(cache, OldestEntry(cache).key)
                   ELSE cache
    IN  SetKey(evicted, CacheEntry(key, data, t))

\* Date.now() - entry.timestamp > this.ttl (line 267)
IsExpired_AtTtl(config, entry, t) == t - entry.timestamp >= config.ttl
IsExpired(config, entry, t) == t - entry.timestamp > config.ttl

\* DataCache.get at clock reading t: [cache, result]
CacheGet(cache, config, key, t) ==
    IF key \notin CacheKeys(cache) THEN [cache |-> cache, result |-> Null]
    ELSE LET entry == cache[IndexOfKey(cache, key)] IN
         IF IsExpired(config, entry, t)
         THEN [cache |-> DeleteKey(cache, key), result |-> Null]
         ELSE [cache |-> cache, result |-> entry.data]

MkCacheCall(op, key, data, result) ==
    [op |-> op, key |-> key, data |-> data, result |-> result]

NoCacheCall == MkCacheCall("none", "", Null, Null)

-----------------------------------------------------------------------------
(* OfferActivationEngine (lib/card-linked/offer-engine.ts).  A promise is   *)
(* a record of the request it stands for, pending until the request has    *)
(* ended; performActivation catches every error, so it is never rejected.  *)

\* activateOffer's key
ActivationKey(offerId, cardId) == offerId \o "-" \o cardId

\* The ways the request of performActivation can end: an OK response with
\* success true or false, a response that is not OK, a rejected fetch
ActivationResponses == { "success", "declined", "notOk", "failed" }

\* What performActivation returns
ActivationResult(response) == response = "success"

\* performActivation up to its first await: the request is sent
PerformActivation(offerId, cardId) ==
    [offerId |-> offerId, cardId |-> cardId, state |-> "pending",
     value |-> FALSE]

MkActivateCall(offerId, cardId, promise, owner) ==
    [offerId |-> offerId, cardId |-> cardId, promise |-> promise,
     owner |-> owner, pc |-> "awaiting", result |-> FALSE]

\* Map.set
QueueSet(queue, key, promise) ==
    [k \in DOMAIN queue \cup { key } |->
        IF k = key THEN promise ELSE queue[k]]

\* Map.delete
QueueDelete(queue, key) == [k \in DOMAIN queue \ { key } |-> queue[k]]

\* activateOffer up to its await: a call that finds its key in the queue
\* returns the queued promise, any other sends a request and queues it
ActivateOffer(queue, promises, offerId, cardId) ==
    LET key == ActivationKey(offerId, cardId) IN
    IF key \in DOMAIN queue
    THEN [queue |-> queue, promises |-> promises,
          call |-> MkActivateCall(offerId, cardId, queue[key], FALSE)]
    ELSE [queue |-> QueueSet(queue, key, Len(promises) + 1),
          promises |-> Append(promises, PerformActivation(offerId, cardId)),
          call |-> MkActivateCall(offerId, cardId, Len(promises) + 1, TRUE)]

\* The call that sent the request of a promise
OwnerOf(calls, promise) ==
    CHOOSE i \in 1..Len(calls) : calls[i].owner /\ calls[i].promise = promise

-----------------------------------------------------------------------------
(* AuthProvider (lib/auth-context.tsx) and authApi.getUser (lib/auth.ts).   *)

\* The ways the request of getUser can end: an OK response with the user,
\* an OK response whose body does not parse, a response that is not OK, a
\* rejected fetch
GetUserResponses == { "ok", "badBody", "notOk", "failed" }

\* The user the backend knows under a token
UserOf(token) == "user-" \o token

\* authApi.getUser: never rejects
GetUser(token, response) == IF response = "ok" THEN UserOf(token) ELSE Null

MkAuthRequest(by, token) == [by |-> by, token |-> token]

MkAuthCall(op, token, response) ==
    [op |-> op, token |-> token, response |-> response]

NoAuthCall == MkAuthCall("none", Null, "none")

-----------------------------------------------------------------------------
(* AuthGuard, the guard built on useAuth (services/recommendations.ts).     *)

\* Props' defaults
DefaultRequireAuth == TRUE
DefaultFallbackPath == "/auth"
HomePath == "/home"

\* What the component returns: the loader while loading or not authorized,
\* else its children
RenderAuthGuard(isLoading, authorized) ==
    IF isLoading THEN "loader"
    ELSE IF ~authorized THEN "loader"
    ELSE "children"

\* The effect: nothing while loading, a redirect when the user does not fit
\* requireAuth, else setIsAuthorized(true)
GuardEffect(required, currentUser, isLoading) ==
    IF isLoading THEN [replace |-> Null, authorize |-> FALSE]
    ELSE IF required /\ currentUser = Null
    THEN [replace |-> DefaultFallbackPath, authorize |-> FALSE]
    ELSE IF ~required /\ currentUser # Null
    THEN [replace |-> HomePath, authorize |-> FALSE]
    ELSE [replace |-> Null, authorize |-> TRUE]

MkRender(output, currentUser, isLoading, authorized) ==
    [output |-> output, user |-> currentUser, loading |-> isLoading,
     isAuthorized |-> authorized]

NoRender == MkRender("none", Null, TRUE, FALSE)

-----------------------------------------------------------------------------
(* The clock.  Date.now() is read at each test of the while condition and  *)
(* once after the loop; between two reads it stands still or advances by   *)
(* one quantum.  Readings saturate at the largest limit compared against.   *)

Ticks == { 0, AltTimeLimit }
Advance(e, d) == Min(e + d, DefaultTimeLimit)

\* Timings of a branchAndBound call taken as one step
Timings ==
    { [budget |-> NoLimit, late |-> FALSE],
      [budget |-> 1, late |-> TRUE] }

NoResult == [deals |-> << >>, totalSavings |-> 0, finalPrice |-> 0,
             breakdown |-> << >>, warnings |-> FALSE,
             alternativeStacks |-> << >>]

EmptyCache == [k \in {} |-> NoResult]

-----------------------------------------------------------------------------
(* One optimize call on a fresh optimizer, position by position *)

Init ==
    /\ pc = "idle"
    /\ basePrice = 0
    /\ constraints = NoConstraints
    /\ deals = << >>
    /\ stack = << >>
    /\ bestResult = EmptyResult(0)
    /\ elapsed = 0
    /\ loopExit = "none"
    /\ cacheKey = << >>
    /\ altIndex = 0
    /\ alternatives = << >>
    /\ usedCombinations = {}
    /\ memoCache = EmptyCache
    /\ lastCall = << >>
    /\ lastResult = NoResult
    /\ numCalls = 0
    /\ anomalyHeap = << >>
    /\ recordedScores = << >>
    /\ phishingTrie = InitialTrie
    /\ patterns = {}
    /\ sellerReputationCache = InitialSellers
    /\ sellerUpdates = << >>
    /\ priceHistoryCache = InitialPriceHistory
    /\ priceDay = 0
    /\ priceUpdates = << >>
    /\ userActivityCache = NoActivity
    /\ clock = 0
    /\ userCalls = << >>
    /\ fraudOp = "none"
    /\ fraudArgs = NoArgs
    /\ fraudResult = << >>
    /\ dataCache = << >>
    /\ cacheConfig = [maxSize |-> DefaultMaxSize, ttl |-> DefaultTtl]
    /\ lastSet = [k \in {} |-> << >>]
    /\ cacheCall = NoCacheCall
    /\ activationQueue = [k \in {} |-> 0]
    /\ activationPromises = << >>
    /\ activationCalls = << >>
    /\ authToken = Null
    /\ user = Null
    /\ loading = TRUE
    /\ authRequests = {}
    /\ authCall = NoAuthCall
    /\ pageLoads = 0
    /\ guardPage = 0
    /\ requireAuth = DefaultRequireAuth
    /\ isAuthorized = FALSE
    /\ guardRender = NoRender
    /\ redirect = Null

\* optimize, lines 288-299 and 334-351: cache miss, sort, filter, root node
StartOptimize ==
    /\ pc = "idle"
    /\ \E base \in BasePrices, dl \in DealListsUpTo(MaxLen),
          c \in ConstraintChoices :
          LET key == GetCacheKey(base, dl, c)
              filtered == ApplyConstraints(SortDeals(dl, base), c)
          IN  /\ key \notin DOMAIN memoCache
              /\ cacheKey' = key
              /\ basePrice' = base
              /\ constraints' = c
              /\ deals' = filtered
              /\ stack' = << RootNode(base, filtered) >>
              /\ bestResult' = EmptyResult(base)
    /\ elapsed' = 0
    /\ pc' = "loop"
    /\ UNCHANGED <<loopExit, altIndex, alternatives, usedCombinations>>
    /\ UNCHANGED memoVars
    /\ UNCHANGED <<fraudVars, serviceVars>>

\* The second conjunct of the while condition (line 353)
WithinTimeLimit_Inclusive(now, timeLimit) == now <= timeLimit
WithinTimeLimit(now, timeLimit) == now < timeLimit

\* Line 353 with a non-empty stack: read the clock, then run the body or
\* leave the loop
LoopIteration ==
    /\ pc = "loop"
    /\ stack # << >>
    /\ \E d \in Ticks :
          LET now == Advance(elapsed, d) IN
          /\ elapsed' = now
          /\ IF WithinTimeLimit(now, TimeLimitOf(constraints))
             THEN LET s == LoopBody([stack |-> stack, best |-> bestResult],
                                    deals, basePrice, MaxDealsOf(constraints))
                  IN  /\ stack' = s.stack
                      /\ bestResult' = s.best
                      /\ UNCHANGED <<pc, loopExit>>
             ELSE /\ pc' = "post"
                  /\ loopExit' = "time"
                  /\ UNCHANGED <<stack, bestResult>>
    /\ UNCHANGED <<basePrice, constraints, deals, cacheKey, altIndex,
                   alternatives, usedCombinations>>
    /\ UNCHANGED memoVars
    /\ UNCHANGED <<fraudVars, serviceVars>>

\* Line 353 with an empty stack: the clock is not read
LoopEmpty ==
    /\ pc = "loop"
    /\ stack = << >>
    /\ pc' = "post"
    /\ loopExit' = "empty"
    /\ UNCHANGED <<basePrice, constraints, deals, stack, bestResult, elapsed,
                   cacheKey, altIndex, alternatives, usedCombinations>>
    /\ UNCHANGED memoVars
    /\ UNCHANGED <<fraudVars, serviceVars>>

\* Lines 403-407 and 311: the warning, then on to findAlternatives or not
PostLoop ==
    /\ pc = "post"
    /\ \E d \in Ticks :
          LET now == Advance(elapsed, d) IN
          /\ elapsed' = now
          /\ bestResult' =
                [bestResult EXCEPT !.warnings =
                    TimeLimitReached(now, TimeLimitOf(constraints))]
    /\ pc' = IF bestResult.totalSavings > 0 THEN "alts" ELSE "store"
    /\ altIndex' = 0
    /\ alternatives' = << >>
    /\ usedCombinations' = { GetDealComboKey(bestResult.deals) }
    /\ stack' = << >>
    /\ UNCHANGED <<basePrice, constraints, deals, loopExit, cacheKey>>
    /\ UNCHANGED memoVars
    /\ UNCHANGED <<fraudVars, serviceVars>>

AlternativesLoopEnded ==
    \/ altIndex >= Min(Len(deals), AltRotations)
    \/ Len(alternatives) >= MaxAlternatives

\* One iteration of findAlternatives' for loop (lines 524-535)
AlternativeIteration ==
    /\ pc = "alts"
    /\ ~AlternativesLoopEnded
    /\ \E timing \in Timings :
          LET altResult == BranchAndBound(basePrice, Reorder(deals, altIndex),
                                          AlternativeMaxDeals(constraints),
                                          timing)
              a == AlternativeStep([list |-> alternatives,
                                    used |-> usedCombinations], altResult)
          IN  /\ alternatives' = a.list
              /\ usedCombinations' = a.used
    /\ altIndex' = altIndex + 1
    /\ UNCHANGED <<pc, basePrice, constraints, deals, stack, bestResult,
                   elapsed, loopExit, cacheKey>>
    /\ UNCHANGED memoVars
    /\ UNCHANGED <<fraudVars, serviceVars>>

\* Line 537: findAlternatives returns its sorted list
AlternativesReturn ==
    /\ pc = "alts"
    /\ AlternativesLoopEnded
    /\ alternatives' = SortAlternatives(alternatives)
    /\ pc' = "store"
    /\ UNCHANGED <<basePrice, constraints, deals, stack, bestResult, elapsed,
                   loopExit, cacheKey, altIndex, usedCombinations>>
    /\ UNCHANGED memoVars
    /\ UNCHANGED <<fraudVars, serviceVars>>

\* Lines 320-321: memoize and return
OptimizeReturn ==
    /\ pc = "store"
    /\ LET result == MkResult(bestResult, alternatives) IN
       /\ memoCache' = (cacheKey :> result) @@ memoCache
       /\ lastResult' = result
    /\ pc' = "done"
    /\ numCalls' = numCalls + 1
    /\ UNCHANGED <<basePrice, constraints, deals, stack, bestResult, elapsed,
                   loopExit, cacheKey, altIndex, alternatives,
                   usedCombinations, lastCall>>
    /\ UNCHANGED <<fraudVars, serviceVars>>

NextSearch ==
    \/ StartOptimize
    \/ LoopIteration
    \/ LoopEmpty
    \/ PostLoop
    \/ AlternativeIteration
    \/ AlternativesReturn
    \/ OptimizeReturn

SpecSearch == Init /\ [][NextSearch]_vars

-----------------------------------------------------------------------------
(* The shared optimizer instance (line 604) across calls, each call one step *)

\* optimize (lines 283-322) as one call on the shared instance
Optimize(cache, base, dl, c, timing, altTiming) ==
    LET key == GetCacheKey(base, dl, c) IN
    IF key \in DOMAIN cache
    THEN [result |-> cache[key], cache |-> cache]
    ELSE LET result == OptimizeFresh(base, dl, c, timing, altTiming)
         IN  [result |-> result, cache |-> (key :> result) @@ cache]

MemoPool == { d \in DealPool : d.id \in {"a", "b"} }

CouponPool ==
    { [code |-> "SAVE10", discount |-> P(10), type |-> "fixed"],
      [code |-> "HALF", discount |-> 50, type |-> "percentage"] }

CouponLists == UNION { [1..k -> CouponPool] : k \in 1..MemoLen }

MemoDealLists ==
    { s \in UNION { [1..k -> MemoPool] : k \in 0..MemoLen } : DistinctIds(s) }

\* findBestCouponStack's coupons.map (lines 676-684)
CouponDeals(coupons) ==
    [k \in 1..Len(coupons) |->
        MkDeal(IdOrder[3 + k], "coupon", coupons[k].discount, coupons[k].type,
               0, 0, TRUE, FALSE, {},
               IF coupons[k].type = "percentage" THEN 2 ELSE 1)]

OptimizeCall ==
    /\ numCalls < MaxCalls
    /\ \E dl \in MemoDealLists, c \in {NoConstraints, MkConstraints(1, {}, {}, 0, 0)},
          timing \in Timings, altTiming \in Timings :
          LET r == Optimize(memoCache, P(100), dl, c, timing, altTiming) IN
          /\ memoCache' = r.cache
          /\ lastResult' = r.result
          /\ lastCall' = [basePrice |-> P(100), deals |-> dl,
                          constraints |-> c]
    /\ numCalls' = numCalls + 1
    /\ UNCHANGED searchVars
    /\ UNCHANGED <<fraudVars, serviceVars>>

\* findBestCouponStack (lines 672-687)
FindBestCouponStackCall ==
    /\ numCalls < MaxCalls
    /\ \E coupons \in CouponLists, timing \in Timings, altTiming \in Timings :
          LET dl == CouponDeals(coupons)
              r == Optimize(memoCache, P(100), dl, NoConstraints,
                            timing, altTiming)
          IN  /\ memoCache' = r.cache
              /\ lastResult' = r.result
              /\ lastCall' = [basePrice |-> P(100), deals |-> dl,
                              constraints |-> NoConstraints]
    /\ numCalls' = numCalls + 1
    /\ UNCHANGED searchVars
    /\ UNCHANGED <<fraudVars, serviceVars>>

NextMemo ==
    \/ OptimizeCall
    \/ FindBestCouponStackCall

SpecMemo == Init /\ [][NextMemo]_vars

-----------------------------------------------------------------------------
(* The fraud-detection engine: its public methods, one call per step.       *)

\* Most anomalies the heap holds
MaxAnomalies == 3

CleanUrl == <<"s", "h", "o", "p", ".", "c", "o", "m">>
PhishingUrl == <<"A", "m", "a", "z", "0", "n", ".", "C", "O", "M", "/", "x">>

FakeDealPrices == { <<100, 0>>, <<100, 20>>, <<100, 100>>, <<100, 120>>, <<0, 0>> }
FakeDealCategories == { "electronics", "toys", "constructor" }

FakeDealChoices ==
    { MkFraudDeal(id, pr[1], pr[2], category, CleanUrl) :
        id \in { "product1", "product2" }, pr \in FakeDealPrices,
        category \in FakeDealCategories }

\* Lists handed to detectFakeDeals: every deal alone, and pairs of the
\* fully discounted deals of one product
FakeDealLists ==
    { <<d>> : d \in FakeDealChoices }
    \cup { <<d, e>> : d, e \in { x \in FakeDealChoices :
                                   x.id = "product1" /\ x.discountedPrice = 0 } }

\* All anomaly scores ever recorded, highest first
InsertScore(x, sorted) ==
    LET k == Cardinality({ j \in 1..Len(sorted) : sorted[j] >= x })
    IN  SubSeq(sorted, 1, k) \o <<x>> \o SubSeq(sorted, k + 1, Len(sorted))

RECURSIVE RecordFrom(_, _, _)
RecordFrom(k, ds, recorded) ==
    IF k > Len(ds) THEN recorded
    ELSE RecordFrom(k + 1, ds,
            IF ExceedsThreshold(ds[k])
            THEN InsertScore(AnomalyScore(ds[k]), recorded) ELSE recorded)

\* detectFakeDeals(deals)
DetectFakeDealsCall ==
    \E ds \in FakeDealLists :
        \E r \in { DetectFakeDeals(anomalyHeap, ds) } :
        /\ Len(r.heap) <= MaxAnomalies
        /\ anomalyHeap' = r.heap
        /\ recordedScores' = RecordFrom(1, ds, recordedScores)
        /\ fraudOp' = "detectFakeDeals"
        /\ fraudArgs' = MkArgs(ds, "", << >>, << >>, 0)
        /\ fraudResult' = r.results
        /\ UNCHANGED <<optimizerVars, serviceVars, activityVars, trieVars, cacheVars>>

\* getTopAnomalies(count)
GetTopAnomaliesCall ==
    \E count \in 0..(MaxAnomalies + 1) :
        \E r \in { GetTopAnomalies(anomalyHeap, count) } :
        /\ anomalyHeap' = r.heap
        /\ fraudOp' = "getTopAnomalies"
        /\ fraudArgs' = MkArgs(<< >>, "", << >>, << >>, count)
        /\ fraudResult' = r.anomalies
        /\ UNCHANGED <<optimizerVars, serviceVars, activityVars, recordedScores, trieVars, cacheVars>>

NextAnomaly ==
    \/ DetectFakeDealsCall
    \/ GetTopAnomaliesCall

SpecAnomaly == Init /\ [][NextAnomaly]_vars

\* Most patterns added with addPhishingPattern
MaxPatterns == 2

\* Longest URL built from UrlUnits
MaxUrlLen == 3

UrlUnits == { "Y", "HI", "LO" }

PatternChoices ==
    { << >>, <<"Y">>, <<"HI", "LO">>, <<"y", "HI", "LO">>, <<"LO", "y">> }

UrlChoices ==
    UNION { [1..n -> UrlUnits] : n \in 1..MaxUrlLen }
    \cup { CleanUrl, PhishingUrl }

\* addPhishingPattern(pattern)
AddPhishingPatternCall ==
    \E pattern \in PatternChoices :
        /\ Cardinality(patterns \cup { ToLowerCase(pattern) }) <= MaxPatterns
        /\ phishingTrie' = AddPattern(phishingTrie, pattern)
        /\ patterns' = patterns \cup { ToLowerCase(pattern) }
        /\ fraudOp' = "addPhishingPattern"
        /\ fraudArgs' = MkArgs(<< >>, "", << >>, pattern, 0)
        /\ fraudResult' = << >>
        /\ UNCHANGED <<optimizerVars, serviceVars, activityVars, heapVars, cacheVars>>

\* detectPhishingLinks(urls)
DetectPhishingLinksCall ==
    \E urls \in { <<u>> : u \in UrlChoices }
                \cup { <<u, v>> : u, v \in { CleanUrl, PhishingUrl } } :
        /\ fraudOp' = "detectPhishingLinks"
        /\ fraudArgs' = MkArgs(<< >>, "", urls, << >>, 0)
        /\ fraudResult' = DetectPhishingLinks(phishingTrie, urls)
        /\ UNCHANGED <<optimizerVars, serviceVars, activityVars, heapVars, trieVars, cacheVars>>

NextTrie ==
    \/ AddPhishingPatternCall
    \/ DetectPhishingLinksCall

SpecTrie == Init /\ [][NextTrie]_vars

FraudPrices == { <<500, 50>>, <<1000, 400>> }

DetectFraudDeals ==
    { MkFraudDeal(id, pr[1], pr[2], "electronics", url) :
        id \in { "product1", "product2", "product3" }, pr \in FraudPrices,
        url \in { CleanUrl, PhishingUrl } }

SellerChoices == { "", "seller1", "seller3", "seller9" }

\* detectFraud(deal, sellerId); an absent sellerId is ""
DetectFraudCall ==
    \E deal \in DetectFraudDeals, sellerId \in SellerChoices :
        \E r \in { DetectFraud(anomalyHeap, phishingTrie,
                                sellerReputationCache, priceHistoryCache,
                                deal, sellerId) } :
        /\ Len(r.heap) <= MaxAnomalies
        /\ anomalyHeap' = r.heap
        /\ recordedScores' = RecordFrom(1, <<deal>>, recordedScores)
        /\ fraudOp' = "detectFraud"
        /\ fraudArgs' = MkArgs(<<deal>>, sellerId, << >>, << >>, 0)
        /\ fraudResult' = r.results
        /\ UNCHANGED <<optimizerVars, serviceVars, activityVars, trieVars, cacheVars>>

NextFraud ==
    \/ DetectFraudCall

SpecFraud == Init /\ [][NextFraud]_vars

\* A Seller: the fields the engine reads
MkSeller(id, rating, reviewCount) ==
    [id |-> id, rating |-> rating, reviewCount |-> reviewCount]

\* updateSellerReputation: this.sellerReputationCache.set(seller.id, seller)
SetSeller_KeepFirst(cache, seller) ==
    IF seller.id \in DOMAIN cache THEN cache
    ELSE [x \in DOMAIN cache \cup { seller.id } |->
            IF x = seller.id
            THEN [rating |-> seller.rating, reviewCount |-> seller.reviewCount]
            ELSE cache[x]]
SetSeller(cache, seller) ==
    [x \in DOMAIN cache \cup { seller.id } |->
        IF x = seller.id
        THEN [rating |-> seller.rating, reviewCount |-> seller.reviewCount]
        ELSE cache[x]]

\* Most updateSellerReputation calls
MaxUpdates == 2

SellerRecords == { <<24, 50>>, <<25, 49>>, <<34, 50>>, <<35, 49>>, <<35, 50>> }

SellerInputs ==
    { MkSeller(id, r[1], r[2]) :
        id \in { "seller1", "seller3", "seller9" }, r \in SellerRecords }

SellerIdLists ==
    { <<id>> : id \in { "seller1", "seller3", "seller9" } }
    \cup { <<"seller3", "seller9">>, <<"seller1", "seller1">> }

\* updateSellerReputation(seller)
UpdateSellerReputationCall ==
    \E seller \in SellerInputs :
        /\ Len(sellerUpdates) < MaxUpdates
        /\ sellerReputationCache' = SetSeller(sellerReputationCache, seller)
        /\ sellerUpdates' = Append(sellerUpdates, seller)
        /\ fraudOp' = "updateSellerReputation"
        /\ fraudArgs' = [seller |-> seller]
        /\ fraudResult' = << >>
        /\ UNCHANGED <<optimizerVars, serviceVars, activityVars, heapVars, trieVars, priceVars>>

\* detectCounterfeitProducts(sellerIds)
DetectCounterfeitProductsCall ==
    \E sellerIds \in SellerIdLists :
        /\ fraudOp' = "detectCounterfeitProducts"
        /\ fraudArgs' = [sellerIds |-> sellerIds]
        /\ fraudResult' =
               DetectCounterfeitProducts(sellerReputationCache, sellerIds)
        /\ UNCHANGED <<optimizerVars, serviceVars, activityVars, heapVars, trieVars, cacheVars>>

NextSeller ==
    \/ UpdateSellerReputationCall
    \/ DetectCounterfeitProductsCall

SpecSeller == Init /\ [][NextSeller]_vars

\* Most calls of detectSuspiciousUserBehavior between two clears
MaxActivity == 104

\* Most calls by the second user
MaxOther == 1

\* Latest clock reading
MaxTime == 71000

CallsBy(userId) ==
    Len(SelectSeq(userCalls, LAMBDA c : c.userId = userId))

\* Calls by the user at the latest clock reading
BurstOf(userId) ==
    Len(SelectSeq(userCalls, LAMBDA c : c.userId = userId /\ c.time = clock))

LastWasFraudulent ==
    /\ fraudOp = "detectSuspiciousUserBehavior"
    /\ fraudResult[1].isFraudulent

\* When calls arrive.  user1 calls in bursts of up to RapidLimit + 1 calls
\* within one millisecond; a full burst is followed by the next a second
\* later (the first also one millisecond less than a second later); after a
\* fraud verdict user1 may pause for a minute, or one millisecond less.
\* user2 calls before user1's first burst or right after it.
Scheduled(userId, d) ==
    IF userId = "user1"
    THEN \/ d = 0 /\ BurstOf("user1") <= RapidLimit
         \/ d = RapidWindow /\ BurstOf("user1") = RapidLimit
         \/ d = RapidWindow - 1 /\ CallsBy("user1") = RapidLimit
         \/ d \in { ActivityWindow - 1, ActivityWindow } /\ LastWasFraudulent
    ELSE /\ d = 0
         /\ CallsBy(userId) < MaxOther
         /\ CallsBy("user1") \in { 0, RapidLimit }

\* detectSuspiciousUserBehavior(userId, action), Date.now() having advanced
\* by d
DetectSuspiciousUserBehaviorCall ==
    \E userId \in { "user1", "user2" },
       d \in { 0, RapidWindow - 1, RapidWindow, ActivityWindow - 1,
               ActivityWindow } :
        /\ Len(userCalls) < MaxActivity
        /\ clock + d <= MaxTime
        /\ Scheduled(userId, d)
        /\ \E r \in { DetectSuspiciousUserBehavior(userActivityCache, userId,
                                                   clock + d) } :
               /\ userActivityCache' = r.cache
               /\ fraudResult' = << r.result >>
        /\ clock' = clock + d
        /\ userCalls' = Append(userCalls, [userId |-> userId, time |-> clock + d])
        /\ fraudOp' = "detectSuspiciousUserBehavior"
        /\ fraudArgs' = [userId |-> userId]
        /\ UNCHANGED <<optimizerVars, serviceVars, heapVars, trieVars, cacheVars>>

\* clearUserActivityCache(), after the first burst
ClearUserActivityCacheCall ==
    /\ LastWasFraudulent
    /\ Len(userCalls) <= RapidLimit + 1 + MaxOther
    /\ userActivityCache' = NoActivity
    /\ userCalls' = << >>
    /\ fraudOp' = "clearUserActivityCache"
    /\ fraudArgs' = NoArgs
    /\ fraudResult' = << >>
    /\ UNCHANGED <<optimizerVars, serviceVars, heapVars, trieVars, cacheVars, clock>>

NextActivity ==
    \/ DetectSuspiciousUserBehaviorCall
    \/ ClearUserActivityCacheCall

SpecActivity == Init /\ [][NextActivity]_vars

\* Most updatePriceHistory calls
MaxPriceUpdates == 3

\* Latest clock reading, in days
MaxDay == 30

UpdateProducts == { "product1", "product3" }
UpdatePrices == { 100, 200 }
DayAdvances == { 0, 23, 30 }
DetectProducts == { "product1", "product2", "product3", "product4" }
DetectPrices == { 130, 131, 706, 707, 1313, 1314 }

\* updatePriceHistory(productId, price), Date.now() having advanced by d days
UpdatePriceHistoryCall ==
    \E productId \in UpdateProducts, price \in UpdatePrices, d \in DayAdvances :
        /\ Len(priceUpdates) < MaxPriceUpdates
        /\ priceDay + d <= MaxDay
        /\ priceDay' = priceDay + d
        /\ priceHistoryCache' =
               UpdatePriceHistory(priceHistoryCache, productId, price,
                                  priceDay + d)
        /\ priceUpdates' =
               Append(priceUpdates,
                      [productId |-> productId, price |-> price,
                       timestamp |-> priceDay + d])
        /\ fraudOp' = "updatePriceHistory"
        /\ fraudArgs' = [productId |-> productId, price |-> price]
        /\ fraudResult' = << >>
        /\ UNCHANGED <<optimizerVars, serviceVars, activityVars, heapVars, trieVars,
                       sellerReputationCache, sellerUpdates>>

\* detectPriceManipulation(productId, currentPrice)
DetectPriceManipulationCall ==
    \E productId \in DetectProducts, currentPrice \in DetectPrices :
        /\ fraudOp' = "detectPriceManipulation"
        /\ fraudArgs' = [productId |-> productId, price |-> currentPrice]
        /\ fraudResult' = << DetectPriceManipulation(priceHistoryCache,
                                                     productId, currentPrice) >>
        /\ UNCHANGED <<optimizerVars, serviceVars, activityVars, heapVars, trieVars,
                       cacheVars>>

NextPrice ==
    \/ UpdatePriceHistoryCall
    \/ DetectPriceManipulationCall

SpecPrice == Init /\ [][NextPrice]_vars

\* Latest clock reading of the DataCache calls, in ms
MaxCacheTime == 3

CacheKeyChoices == { "k1", "k2", "k3" }
CacheDataChoices == { "d1", "d2" }
CacheConfigs == { [maxSize |-> m, ttl |-> 1] : m \in { 1, 2 } }
CacheAdvances == { 0, 1, 2 }

\* new DataCache(maxSize, ttl), in place of the global instance
NewDataCache ==
    \E config \in CacheConfigs :
        /\ cacheCall.op = "none"
        /\ cacheConfig' = config
        /\ dataCache' = << >>
        /\ cacheCall' = MkCacheCall("new", "", Null, Null)
        /\ UNCHANGED <<optimizerVars, fraudVars, offerVars, pageVars, lastSet>>

\* set(key, data), Date.now() having advanced by d
CacheSetCall ==
    \E key \in CacheKeyChoices, data \in CacheDataChoices, d \in CacheAdvances :
        /\ clock + d <= MaxCacheTime
        /\ clock' = clock + d
        /\ dataCache' = CacheSet(dataCache, cacheConfig, key, data, clock + d)
        /\ lastSet' = [k \in DOMAIN lastSet \cup { key } |->
                          IF k = key THEN [data |-> data, time |-> clock + d]
                          ELSE lastSet[k]]
        /\ cacheCall' = MkCacheCall("set", key, data, Null)
        /\ UNCHANGED <<optimizerVars, heapVars, trieVars, cacheVars,
                       userActivityCache, userCalls, callVars, offerVars,
                       pageVars, cacheConfig>>

\* get(key), Date.now() having advanced by d
CacheGetCall ==
    \E key \in CacheKeyChoices, d \in CacheAdvances :
        /\ clock + d <= MaxCacheTime
        /\ clock' = clock + d
        /\ \E r \in { CacheGet(dataCache, cacheConfig, key, clock + d) } :
               /\ dataCache' = r.cache
               /\ cacheCall' = MkCacheCall("get", key, Null, r.result)
        /\ UNCHANGED <<optimizerVars, heapVars, trieVars, cacheVars,
                       userActivityCache, userCalls, callVars, offerVars,
                       pageVars, cacheConfig, lastSet>>

\* clear()
CacheClearCall ==
    /\ dataCache # << >>
    /\ dataCache' = << >>
    /\ cacheCall' = MkCacheCall("clear", "", Null, Null)
    /\ UNCHANGED <<optimizerVars, fraudVars, offerVars, pageVars, cacheConfig,
                   lastSet>>

NextCache ==
    \/ NewDataCache
    \/ CacheSetCall
    \/ CacheGetCall
    \/ CacheClearCall

SpecCache == Init /\ [][NextCache]_vars

-----------------------------------------------------------------------------
(* The offer activation engine: activateOffer calls, the ends of their     *)
(* requests and the resumptions of the awaiting calls, in any order the    *)
(* event loop allows.                                                       *)

\* Number of activateOffer calls
MaxActivations == 3

OfferIdChoices == { "a", "a-b" }
CardIdChoices == { "c", "b-c" }

\* activateOffer(offerId, cardId), up to its await
ActivateOfferCall ==
    \E offerId \in OfferIdChoices, cardId \in CardIdChoices :
        /\ Len(activationCalls) < MaxActivations
        /\ \E r \in { ActivateOffer(activationQueue, activationPromises,
                                     offerId, cardId) } :
               /\ activationQueue' = r.queue
               /\ activationPromises' = r.promises
               /\ activationCalls' = Append(activationCalls, r.call)
        /\ UNCHANGED <<optimizerVars, fraudVars, dataCacheVars, pageVars>>

\* The request of a pending promise ends and performActivation returns
ActivationSettles ==
    \E p \in 1..Len(activationPromises), response \in ActivationResponses :
        /\ activationPromises[p].state = "pending"
        /\ activationPromises' =
               [activationPromises EXCEPT
                   ![p].state = "fulfilled",
                   ![p].value = ActivationResult(response)]
        /\ UNCHANGED <<optimizerVars, fraudVars, dataCacheVars, pageVars,
                       activationQueue, activationCalls>>

\* A call resumes after its promise was fulfilled: the call that sent the
\* request runs its finally block and returns; a call that was handed the
\* queued promise resolves after it
ActivateOfferResumes ==
    \E i \in 1..Len(activationCalls) :
        LET call == activationCalls[i]
            promise == activationPromises[call.promise]
        IN  /\ call.pc = "awaiting"
            /\ promise.state = "fulfilled"
            /\ call.owner
                   \/ activationCalls[OwnerOf(activationCalls,
                                              call.promise)].pc = "returned"
            /\ activationCalls' =
                   [activationCalls EXCEPT ![i].pc = "returned",
                                           ![i].result = promise.value]
            /\ activationQueue' =
                   IF call.owner
                   THEN QueueDelete(activationQueue,
                                    ActivationKey(call.offerId, call.cardId))
                   ELSE activationQueue
            /\ UNCHANGED <<optimizerVars, fraudVars, dataCacheVars, pageVars,
                           activationPromises>>

NextOffers ==
    \/ ActivateOfferCall
    \/ ActivationSettles
    \/ ActivateOfferResumes

SpecOffers == Init /\ [][NextOffers]_vars

-----------------------------------------------------------------------------
(* The auth provider over page loads.  localStorage outlives a page; the   *)
(* provider's state and the requests it awaits do not.                      *)

\* Number of page loads
MaxPageLoads == 2

TokenChoices == { "t1", "t2" }

\* The provider mounts: useState's initial values, then useEffect runs
\* checkAuth up to its await (without a token, to its end)
MountAuthProvider ==
    /\ pageLoads < MaxPageLoads
    /\ pageLoads' = pageLoads + 1
    /\ user' = Null
    /\ IF authToken # Null
       THEN /\ authRequests' = { MkAuthRequest("checkAuth", authToken) }
            /\ loading' = TRUE
            /\ authCall' = NoAuthCall
       ELSE /\ authRequests' = {}
            /\ loading' = FALSE
            /\ authCall' = MkAuthCall("checkAuth", Null, "none")
    /\ UNCHANGED <<optimizerVars, fraudVars, dataCacheVars, offerVars,
                   guardVars, authToken>>

\* getUser returns to checkAuth: setUser, then finally setLoading(false)
CheckAuthResumes ==
    \E request \in authRequests, response \in GetUserResponses :
        /\ request.by = "checkAuth"
        /\ authRequests' = authRequests \ { request }
        /\ user' = GetUser(request.token, response)
        /\ loading' = FALSE
        /\ authCall' = MkAuthCall("checkAuth", request.token, response)
        /\ UNCHANGED <<optimizerVars, fraudVars, dataCacheVars, offerVars,
                       guardVars, authToken, pageLoads>>

\* login(token), up to its await
LoginCall ==
    \E token \in TokenChoices :
        /\ pageLoads > 0
        /\ MkAuthRequest("login", token) \notin authRequests
        /\ authToken' = token
        /\ authRequests' = authRequests \cup { MkAuthRequest("login", token) }
        /\ UNCHANGED <<optimizerVars, fraudVars, dataCacheVars, offerVars,
                       guardVars, user, loading, authCall, pageLoads>>

\* getUser returns to login: setUser
LoginResumes ==
    \E request \in authRequests, response \in GetUserResponses :
        /\ request.by = "login"
        /\ authRequests' = authRequests \ { request }
        /\ user' = GetUser(request.token, response)
        /\ authCall' = MkAuthCall("login", request.token, response)
        /\ UNCHANGED <<optimizerVars, fraudVars, dataCacheVars, offerVars,
                       guardVars, authToken, loading, pageLoads>>

\* logout(): the page is then left for '/'
LogoutCall ==
    /\ pageLoads > 0
    /\ authCall.op # "logout"
    /\ authToken' = Null
    /\ user' = Null
    /\ authRequests' = {}
    /\ authCall' = MkAuthCall("logout", Null, "none")
    /\ UNCHANGED <<optimizerVars, fraudVars, dataCacheVars, offerVars,
                   guardVars, loading, pageLoads>>

NextAuth ==
    \/ MountAuthProvider
    \/ CheckAuthResumes
    \/ LoginCall
    \/ LoginResumes
    \/ LogoutCall

SpecAuth == Init /\ [][NextAuth]_vars

-----------------------------------------------------------------------------
(* A guard under the auth provider.  It is mounted at some time after the  *)
(* page has loaded and is gone with the page: on the next page load, after *)
(* logout() has left for '/', and once it has asked the router to go       *)
(* elsewhere.                                                               *)

\* The guard is on the page and stays there
GuardOnPage ==
    /\ guardPage = pageLoads
    /\ guardPage > 0
    /\ authCall.op # "logout"
    /\ redirect = Null

\* The guard is mounted: useState(false)
AuthGuardMounts ==
    \E required \in BOOLEAN :
        /\ guardPage # pageLoads
        /\ authCall.op # "logout"
        /\ guardPage' = pageLoads
        /\ requireAuth' = required
        /\ isAuthorized' = FALSE
        /\ guardRender' = NoRender
        /\ redirect' = Null
        /\ UNCHANGED <<optimizerVars, fraudVars, dataCacheVars, offerVars,
                       authVars>>

\* The guard renders, for the first time or because user, loading or
\* isAuthorized changed, and the effect runs if it is the first render or
\* user or loading changed
AuthGuardRenders ==
    /\ GuardOnPage
    /\ \/ guardRender = NoRender
       \/ <<guardRender.user, guardRender.loading, guardRender.isAuthorized>>
              # <<user, loading, isAuthorized>>
    /\ guardRender' = MkRender(RenderAuthGuard(loading, isAuthorized),
                               user, loading, isAuthorized)
    /\ IF \/ guardRender = NoRender
          \/ <<guardRender.user, guardRender.loading>> # <<user, loading>>
       THEN \E effect \in { GuardEffect(requireAuth, user, loading) } :
                /\ isAuthorized' = (isAuthorized \/ effect.authorize)
                /\ redirect' = effect.replace
       ELSE UNCHANGED <<isAuthorized, redirect>>
    /\ UNCHANGED <<optimizerVars, fraudVars, dataCacheVars, offerVars,
                   authVars, guardPage, requireAuth>>

NextGuard ==
    \/ MountAuthProvider
    \/ CheckAuthResumes
    \/ LoginCall
    \/ LoginResumes
    \/ LogoutCall
    \/ AuthGuardMounts
    \/ AuthGuardRenders

SpecGuard == Init /\ [][NextGuard]_vars

-----------------------------------------------------------------------------
(* Stacks the optimizer may choose from, stated without the search *)

\* The deals of ds at the positions of idx, in ds's order
RECURSIVE Pick(_, _, _)
Pick(ds, idx, k) ==
    IF k > Len(ds) THEN << >>
    ELSE (IF k \in idx THEN << ds[k] >> ELSE << >>) \o Pick(ds, idx, k + 1)

\* Every deal passes canStackDeal against the deals chosen before it
Stackable(sub) ==
    \A k \in 1..Len(sub) : CanStackDeal(sub[k], SubSeq(sub, 1, k - 1))

\* The price after applying sub in order, starting from price
RECURSIVE PriceAfter(_, _, _)
PriceAfter(price, sub, base) ==
    IF sub = << >> THEN price
    ELSE PriceAfter(ApplyDeal(price, Head(sub), base), Tail(sub), base)

SavingsOf(base, sub) == base - PriceAfter(base, sub, base)

\* Stacks extending prefix by deals of ds at 0-based positions >= from
Extensions(prefix, ds, from, maxDeals) ==
    { prefix \o Pick(ds, idx, 1) : idx \in SUBSET ((from + 1)..Len(ds)) }

FeasibleExtensions(prefix, ds, from, maxDeals) ==
    { st \in Extensions(prefix, ds, from, maxDeals) :
         Len(st) <= maxDeals /\ Stackable(st) }

\* The greatest savings of a feasible stack extending prefix
Reachable(prefix, ds, from, maxDeals, base) ==
    SetMax({ SavingsOf(base, st) :
                st \in FeasibleExtensions(prefix, ds, from, maxDeals) })

BestSavings(base, ds, maxDeals) == Reachable(<< >>, ds, 0, maxDeals, base)

\* The stacks of a returned result: the primary one and the alternatives
StacksOf(r) ==
    { r.deals } \cup { r.alternativeStacks[k].deals :
                         k \in 1..Len(r.alternativeStacks) }

-----------------------------------------------------------------------------
(* C1 *)

\* C1: when the time limit is not reached, the totalSavings optimize returns
\* is the greatest savings of any sub-sequence of the filtered deals, in
\* sorted order, of at most maxDeals deals, each passing canStackDeal
\* against the deals chosen before it.
C1_ReturnsBest ==
    (pc = "done" /\ ~lastResult.warnings)
        => lastResult.totalSavings
             = BestSavings(basePrice, deals, MaxDealsOf(constraints))

-----------------------------------------------------------------------------
(* C2 *)

\* C2: a node is discarded by the test node.bound <= bestResult.totalSavings
\* only when no stack extending its currentDeals by deals at positions
\* >= node.index saves more than the best found at that moment.
C2_PruningSound ==
    [][ ( /\ pc = "loop" /\ pc' = "loop"
          /\ stack # << >>
          /\ Last(stack).bound <= bestResult.totalSavings )
        => Reachable(Last(stack).currentDeals, deals, Last(stack).index,
                     MaxDealsOf(constraints), basePrice)
             <= bestResult.totalSavings ]_vars

-----------------------------------------------------------------------------
(* C3 *)

\* C3: whatever calls came before, a call on the shared optimizer returns
\* the deals, totalSavings and finalPrice a fresh optimizer returns for the
\* same arguments (under some timing of the clock).
C3_StatelessBetweenCalls ==
    numCalls > 0 /\ pc = "idle" =>
        \E timing \in Timings, altTiming \in Timings :
            LET fresh == OptimizeFresh(lastCall.basePrice, lastCall.deals,
                                       lastCall.constraints, timing, altTiming)
            IN  /\ lastResult.deals = fresh.deals
                /\ lastResult.totalSavings = fresh.totalSavings
                /\ lastResult.finalPrice = fresh.finalPrice

-----------------------------------------------------------------------------
(* C4 *)

\* The time limit in force, read off the constraints
GivenTimeLimit == IF constraints.timeLimit = 0 THEN 1000 ELSE constraints.timeLimit

\* C4 as stated: the returned result carries the warning exactly when the
\* loop stopped because of the time limit, with nodes left on the stack.
C4_WarningIffLoopCut ==
    pc = "done" => (lastResult.warnings <=> loopExit = "time")

\* C4, amended: no node is expanded on a clock reading at or past the time
\* limit; the result carries the warning exactly when the clock reading
\* taken after the loop is at or past the limit, which is so whenever the
\* loop stopped because of the limit; and optimize returns that warning.
C4_TimeLimitReported ==
    [][ /\ (pc = "loop" /\ stack # << >> /\ elapsed' >= GivenTimeLimit)
            => (stack' = stack /\ bestResult' = bestResult /\ pc' = "post")
        /\ pc = "post"
            => /\ bestResult'.warnings <=> elapsed' >= GivenTimeLimit
               /\ loopExit = "time" => bestResult'.warnings
               /\ bestResult'.deals = bestResult.deals
        /\ (pc = "store" /\ pc' = "done")
            => lastResult'.warnings = bestResult.warnings ]_vars

\* The search ran to an empty stack and the result carries the warning
C4_Witness ==
    pc = "done" /\ loopExit = "empty" /\ lastResult.warnings
    /\ Len(lastResult.deals) >= 2

-----------------------------------------------------------------------------
(* C5 *)

\* The stacking rules, stated on a stack as a whole
ObeysStackingRules(st) ==
    /\ (\E k \in 1..Len(st) : ~st[k].stackable) => Len(st) = 1
    /\ \A i, j \in 1..Len(st) :
          i # j =>
            /\ st[i].type = st[j].type => st[i].type \in {"cashback", "points"}
            /\ st[i].hasStacksWith => st[j].type \in st[i].stacksWith

\* C5: every stack optimize returns, primary or alternative, obeys the
\* stacking rules: a non-stackable deal stands alone, no type other than
\* cashback and points occurs twice, and each deal's stacksWith, when
\* present, holds the type of every other deal of the stack.
C5_StacksObeyRules ==
    pc = "done" => \A st \in StacksOf(lastResult) : ObeysStackingRules(st)

\* A returned stack holds two deals of one type, one of them with a
\* stacksWith list
C5_Witness ==
    /\ pc = "done"
    /\ \E st \in StacksOf(lastResult) :
          /\ \E i, j \in 1..Len(st) : i # j /\ st[i].type = st[j].type
          /\ \E i \in 1..Len(st) : st[i].hasStacksWith

-----------------------------------------------------------------------------
(* C6 *)

\* C6: every stack optimize returns, primary or alternative, has at most
\* constraints.maxDeals deals, and at most 5 when maxDeals is not given.
C6_AtMostMaxDeals ==
    pc = "done" =>
        \A st \in StacksOf(lastResult) :
            Len(st) <= (IF constraints.maxDeals = 0 THEN 5
                        ELSE constraints.maxDeals)


-----------------------------------------------------------------------------
(* C12, C13 *)

\* C12: when constraints.minSavings is given, optimize returns no non-empty
\* stack, primary or alternative, whose totalSavings is below minSavings.
C12_HonoursMinSavings ==
    (pc = "done" /\ constraints.minSavings > 0) =>
        /\ lastResult.deals # << >>
               => lastResult.totalSavings >= constraints.minSavings
        /\ \A k \in 1..Len(lastResult.alternativeStacks) :
               lastResult.alternativeStacks[k].deals # << >>
                   => lastResult.alternativeStacks[k].totalSavings
                          >= constraints.minSavings


\* C13: in every stack optimize returns, primary or alternative, the deals
\* are listed, and so applied to the price, in non-increasing order of their
\* priority.
C13_PriorityOrder ==
    pc = "done" =>
        \A st \in StacksOf(lastResult) :
            \A i, j \in 1..Len(st) :
                i < j => st[i].priority >= st[j].priority


-----------------------------------------------------------------------------
(* Claims about the fraud-detection engine.                                 *)

ScoresOf(anomalies) == [k \in 1..Len(anomalies) |-> anomalies[k].anomalyScore]

BagOfSeq(seq) ==
    [x \in { seq[k] : k \in 1..Len(seq) } |->
        Cardinality({ k \in 1..Len(seq) : seq[k] = x })]

TypesOf(results) == [k \in 1..Len(results) |-> results[k].fraudType]

\* C7: detectFraud(deal, sellerId) returns one entry for each check that
\* fires and nothing else, in the order fake_deal, counterfeit_product (only
\* when a sellerId is passed), phishing_link, price_manipulation; every entry
\* has isFraudulent = TRUE, and the list is empty exactly when no check fires.
C7_VerdictList ==
    fraudOp = "detectFraud" =>
        LET deal == fraudArgs.deals[1]
            sellerId == fraudArgs.sellerId
            fakeFires == ExceedsThreshold(deal)
            counterfeitFires ==
                /\ sellerId # ""
                /\ DetectCounterfeitProducts(sellerReputationCache,
                                             <<sellerId>>) # << >>
            phishingFires ==
                DetectPhishingLinks(phishingTrie, <<deal.url>>) # << >>
            priceFires ==
                DetectPriceManipulation(priceHistoryCache, deal.id,
                                        deal.originalPrice).isFraudulent
            expected ==
                (IF fakeFires THEN <<"fake_deal">> ELSE << >>)
                \o (IF counterfeitFires THEN <<"counterfeit_product">>
                    ELSE << >>)
                \o (IF phishingFires THEN <<"phishing_link">> ELSE << >>)
                \o (IF priceFires THEN <<"price_manipulation">> ELSE << >>)
        IN  /\ Len(fraudResult) = Len(expected)
            /\ \A k \in 1..Len(expected) :
                   /\ fraudResult[k].fraudType = expected[k]
                   /\ fraudResult[k].isFraudulent
            /\ (fraudResult = << >>) <=>
                   ~(fakeFires \/ counterfeitFires \/ phishingFires
                     \/ priceFires)

\* All four checks fire on one deal
C7_Witness ==
    /\ fraudOp = "detectFraud"
    /\ fraudArgs.sellerId # ""
    /\ TypesOf(fraudResult) = <<"fake_deal", "counterfeit_product",
                                "phishing_link", "price_manipulation">>

\* text contains pattern as a contiguous run of code units
Contains(text, pattern) ==
    \E i \in 0..(Len(text) - Len(pattern)) :
        SubSeq(text, i + 1, i + Len(pattern)) = pattern

\* The built-in patterns and the lower-cased added ones
RegisteredPatterns ==
    { BuiltInPatterns[k] : k \in 1..Len(BuiltInPatterns) } \cup patterns

\* C8: after any sequence of addPhishingPattern calls, detectPhishingLinks
\* flags a URL if and only if the lower-cased URL contains, as a contiguous
\* substring, at least one non-empty registered pattern.
C8_SubstringMatching ==
    fraudOp = "detectPhishingLinks" =>
        LET urls == fraudArgs.urls IN
        Len(fraudResult) =
            Cardinality({ k \in 1..Len(urls) :
                \E p \in RegisteredPatterns :
                    p # << >> /\ Contains(ToLowerCase(urls[k]), p) })

\* C9: getTopAnomalies(k) returns the min(k, n) recorded anomalies with the
\* highest anomalyScore, in non-increasing order, n being the number of
\* anomalies recorded so far, and the heap holds the same multiset of
\* anomalies after the call as before it.
C9_TopAnomalies ==
    [][fraudOp' = "getTopAnomalies" =>
         LET n == Len(recordedScores)
             k == fraudArgs'.count
         IN  /\ Len(anomalyHeap) = n
             /\ ScoresOf(fraudResult') = SubSeq(recordedScores, 1, Min(k, n))
             /\ \A j \in 1..Len(fraudResult') :
                    \E i \in 1..Len(anomalyHeap) :
                        anomalyHeap[i] = fraudResult'[j]
             /\ BagOfSeq(anomalyHeap') = BagOfSeq(anomalyHeap)]_vars

\* Two of three anomalies with different scores have been asked for, and the
\* heap's array is not in score order
C9_Witness ==
    /\ fraudOp = "getTopAnomalies"
    /\ fraudArgs.count = 2
    /\ Len(recordedScores) = 3
    /\ recordedScores[1] > recordedScores[2]
    /\ recordedScores[2] > recordedScores[3]
    /\ ScoresOf(fraudResult) = <<recordedScores[1], recordedScores[2]>>
    /\ anomalyHeap[2].anomalyScore < anomalyHeap[3].anomalyScore

\* The thresholds as percentages: 85 for every category outside the four
StatedThreshold(category) ==
    CASE category = "electronics" -> 70
      [] category = "fashion" -> 90
      [] category = "home" -> 80
      [] category = "food" -> 60
      [] OTHER -> 85

\* (originalPrice - discountedPrice) / originalPrice * 100 is strictly
\* greater than the stated threshold
OverStatedThreshold(deal) ==
    /\ deal.originalPrice > 0
    /\ (deal.originalPrice - deal.discountedPrice) * 100
           > StatedThreshold(deal.category) * deal.originalPrice

\* C10: detectFakeDeals flags a deal if and only if its discount percentage
\* is strictly greater than 100 times the threshold of its category (0.85
\* for every category outside electronics, fashion, home and food), never
\* flags a deal whose discountedPrice is at or above its originalPrice, and
\* gives every fake_deal verdict a confidence in (0, 0.95].
C10_FlaggedIffOverThreshold ==
    fraudOp = "detectFakeDeals" =>
        LET ds == fraudArgs.deals IN
        /\ Len(fraudResult)
               = Cardinality({ k \in 1..Len(ds) : OverStatedThreshold(ds[k]) })
        /\ (\A k \in 1..Len(ds) :
                ds[k].discountedPrice >= ds[k].originalPrice)
               => fraudResult = << >>
        /\ \A k \in 1..Len(fraudResult) :
               /\ fraudResult[k].fraudType = "fake_deal"
               /\ fraudResult[k].confidence > 0
               /\ fraudResult[k].confidence <= 95

\* The record stored last for a seller id: the latest update with that id,
\* else the record of initializeSellerData; << >> when there is none
LatestSeller(id) ==
    LET at == { k \in 1..Len(sellerUpdates) : sellerUpdates[k].id = id } IN
    IF at # {} THEN << sellerUpdates[SetMax(at)] >>
    ELSE IF id \in DOMAIN InitialSellers THEN << InitialSellers[id] >>
    ELSE << >>

RECURSIVE StatedCounterfeits(_, _)
StatedCounterfeits(k, sellerIds) ==
    IF k > Len(sellerIds) THEN << >>
    ELSE LET latest == LatestSeller(sellerIds[k]) IN
         (IF latest # << >>
             /\ (latest[1].rating < 35 \/ latest[1].reviewCount < 50)
          THEN << [isFraudulent |-> TRUE, fraudType |-> "counterfeit_product",
                   confidence |-> IF latest[1].rating < 25 THEN 90 ELSE 70] >>
          ELSE << >>)
         \o StatedCounterfeits(k + 1, sellerIds)

\* C11: after any sequence of updateSellerReputation calls,
\* detectCounterfeitProducts flags a seller id if and only if the latest
\* record stored for it has rating < 3.5 or reviewCount < 50, with confidence
\* 0.9 when rating < 2.5 and 0.7 otherwise; an id with no record yields no
\* verdict.
C11_SellerTrust ==
    fraudOp = "detectCounterfeitProducts" =>
        fraudResult = StatedCounterfeits(1, fraudArgs.sellerIds)

\* A seller flagged at construction has been updated twice, last with a good
\* record, and is asked about together with an unknown seller
C11_Witness ==
    /\ fraudOp = "detectCounterfeitProducts"
    /\ fraudArgs.sellerIds = <<"seller3", "seller9">>
    /\ Len(sellerUpdates) = 2
    /\ sellerUpdates[1].id = "seller3"
    /\ sellerUpdates[1].rating < 25
    /\ sellerUpdates[2] = MkSeller("seller3", 35, 50)
    /\ fraudResult = << >>

\* Calls by the user, since the cache was last cleared, less than window ms
\* before the latest clock reading, the latest call included
CallsWithin(userId, window) ==
    Cardinality({ k \in 1..Len(userCalls) :
                    /\ userCalls[k].userId = userId
                    /\ clock - userCalls[k].time < window })

\* C14: counting the current call, detectSuspiciousUserBehavior returns
\* suspicious_behavior iff the user has made more than 10 calls in the last
\* 1000 ms, otherwise bot_behavior iff the user has made more than 100 calls
\* in the last 60000 ms, otherwise isFraudulent = FALSE; other users' calls
\* do not count, and clearUserActivityCache restarts the counts.
C14_SlidingWindows ==
    fraudOp = "detectSuspiciousUserBehavior" =>
        LET userId == fraudArgs.userId
            verdict == fraudResult[1]
        IN  IF CallsWithin(userId, 1000) > 10
            THEN verdict.isFraudulent
                 /\ verdict.fraudType = "suspicious_behavior"
            ELSE IF CallsWithin(userId, 60000) > 100
            THEN verdict.isFraudulent /\ verdict.fraudType = "bot_behavior"
            ELSE ~verdict.isFraudulent

\* user1's 101st call within a minute, no more than 10 of them in the last
\* second, after user2 has called too
C14_Witness ==
    /\ fraudOp = "detectSuspiciousUserBehavior"
    /\ fraudArgs.userId = "user1"
    /\ fraudResult[1].fraudType = "bot_behavior"
    /\ CallsWithin("user1", 60000) = 101
    /\ CallsWithin("user2", 60000) = 1

\* C15: after any call of detectSuspiciousUserBehavior at time t, no user's
\* cached activity list holds a timestamp 60000 ms or more older than t.
C15_OnlyRecentTimestamps ==
    fraudOp = "detectSuspiciousUserBehavior" =>
        \A u \in DOMAIN userActivityCache :
            \A k \in 1..Len(userActivityCache[u]) :
                clock - userActivityCache[u][k] < 60000

\* The k-th smallest of a sequence of numbers
KthSmallest(numbers, k) ==
    CHOOSE v \in { numbers[i] : i \in 1..Len(numbers) } :
        /\ Cardinality({ i \in 1..Len(numbers) : numbers[i] < v }) < k
        /\ k <= Cardinality({ i \in 1..Len(numbers) : numbers[i] <= v })

\* Twice the median: the middle value, or the mean of the two middle values
StatedTwiceMedian(numbers) ==
    LET n == Len(numbers) IN
    IF n % 2 = 0
    THEN KthSmallest(numbers, n \div 2) + KthSmallest(numbers, n \div 2 + 1)
    ELSE 2 * KthSmallest(numbers, (n + 1) \div 2)

\* Every price point the product was ever given, in order
AllPricePoints(productId) ==
    (IF productId \in DOMAIN InitialPriceHistory
     THEN InitialPriceHistory[productId] ELSE << >>)
    \o [k \in 1..Len(SelectSeq(priceUpdates,
                               LAMBDA u : u.productId = productId)) |->
           LET u == SelectSeq(priceUpdates,
                              LAMBDA x : x.productId = productId)[k]
           IN  [price |-> u.price, timestamp |-> u.timestamp]]

\* C16: detectPriceManipulation returns isFraudulent = FALSE when the product
\* has no stored history or fewer than 3 stored prices, and otherwise
\* price_manipulation iff |price - m| / m > 0.3, m being the median of the
\* stored prices; updatePriceHistory adds the new price and drops every
\* stored price of the product older than 30 days, keeping the newer ones.
C16_PriceHistory ==
    /\ fraudOp = "detectPriceManipulation" =>
           LET productId == fraudArgs.productId
               stored == IF productId \in DOMAIN priceHistoryCache
                         THEN priceHistoryCache[productId] ELSE << >>
               prices == [k \in 1..Len(stored) |-> stored[k].price]
               m2 == StatedTwiceMedian(prices)
               d2 == IF 2 * fraudArgs.price >= m2 THEN 2 * fraudArgs.price - m2
                     ELSE m2 - 2 * fraudArgs.price
           IN  IF Len(stored) < 3 THEN ~fraudResult[1].isFraudulent
               ELSE IF 10 * d2 > 3 * m2
               THEN /\ fraudResult[1].isFraudulent
                    /\ fraudResult[1].fraudType = "price_manipulation"
               ELSE ~fraudResult[1].isFraudulent
    /\ fraudOp = "updatePriceHistory" =>
           LET stored == priceHistoryCache[fraudArgs.productId]
               Newer(p) == priceDay - p.timestamp < 30
           IN  /\ stored # << >>
               /\ stored[Len(stored)] =
                      [price |-> fraudArgs.price, timestamp |-> priceDay]
               /\ \A k \in 1..Len(stored) :
                      priceDay - stored[k].timestamp <= 30
               /\ SelectSeq(stored, Newer)
                      = SelectSeq(AllPricePoints(fraudArgs.productId), Newer)

\* A price is checked against a history of three updates, the prices of the
\* construction having been dropped thirty days later
C16_Witness ==
    /\ fraudOp = "detectPriceManipulation"
    /\ fraudArgs.productId = "product1"
    /\ priceDay = 30
    /\ Len(priceHistoryCache["product1"]) = 3
    /\ fraudResult[1].isFraudulent

-----------------------------------------------------------------------------
(* Claims about DataCache.                                                  *)

\* DataCache.size
CacheSize(cache) == Len(cache)

\* C17: with maxSize >= 1, size() never exceeds maxSize after any sequence
\* of set, get and clear calls; a set call removes an existing entry only
\* when the cache holds maxSize entries, and the entry removed is then one
\* with the oldest set timestamp.
C17_WithinCapacity ==
    [][/\ CacheSize(dataCache') <= cacheConfig'.maxSize
       /\ cacheCall'.op = "set" =>
              LET removed == CacheKeys(dataCache) \ CacheKeys(dataCache') IN
              removed # {} =>
                  /\ CacheSize(dataCache) = cacheConfig.maxSize
                  /\ Cardinality(removed) = 1
                  /\ \A i, j \in 1..Len(dataCache) :
                         dataCache[i].key \in removed
                             => dataCache[i].timestamp
                                    <= dataCache[j].timestamp]_vars

\* A set on a full cache of two entries with different timestamps has put in
\* a third key
C17_Witness ==
    /\ cacheCall.op = "set"
    /\ cacheConfig.maxSize = 2
    /\ CacheSize(dataCache) = 2
    /\ DOMAIN lastSet = CacheKeyChoices
    /\ cacheCall.key = "k3"
    /\ lastSet["k1"].time < lastSet["k2"].time
    /\ CacheKeys(dataCache) = { "k2", "k3" }

\* C18: get(key) returns the stored value iff the key was set, has not been
\* evicted or cleared, and its last set happened at most ttl ms before the
\* get; a get on an expired entry returns null and removes the entry, and a
\* successful get leaves the entry, and so its lifetime, as it was.
C18_Expiry ==
    [][cacheCall'.op = "get" =>
           LET key == cacheCall'.key
               alive == /\ key \in CacheKeys(dataCache)
                        /\ clock' - lastSet[key].time <= cacheConfig.ttl
           IN  IF alive
               THEN /\ cacheCall'.result = lastSet[key].data
                    /\ dataCache' = dataCache
               ELSE /\ cacheCall'.result = Null
                    /\ key \notin CacheKeys(dataCache')
                    /\ \A k \in CacheKeys(dataCache) \ { key } :
                           k \in CacheKeys(dataCache')]_vars

\* A get exactly ttl ms after the key's last set, which overwrote an earlier
\* value, has returned the value
C18_Witness ==
    /\ cacheCall.op = "get"
    /\ cacheCall.result = "d2"
    /\ cacheConfig.ttl = 1
    /\ clock - lastSet[cacheCall.key].time = cacheConfig.ttl
    /\ CacheSize(dataCache) = 2

-----------------------------------------------------------------------------
(* Claims about OfferActivationEngine.                                      *)

\* The calls whose activation is in flight: they sent a request and have
\* not run their finally block yet
InFlight(calls) ==
    { i \in 1..Len(calls) : calls[i].owner /\ calls[i].pc = "awaiting" }

SamePair(a, b) == a.offerId = b.offerId /\ a.cardId = b.cardId

\* A call made while an activation of its pair is in flight sends no request
\* and is handed the promise of that activation
JoinsInFlight ==
    Len(activationCalls') = Len(activationCalls) + 1 =>
        \A i \in InFlight(activationCalls) :
            SamePair(activationCalls[i], Last(activationCalls')) =>
                /\ activationPromises' = activationPromises
                /\ Last(activationCalls').promise = activationCalls[i].promise

\* A call that has returned returned what its promise was fulfilled with
SameOutcome ==
    \A i \in 1..Len(activationCalls) :
        activationCalls[i].pc = "returned" =>
            activationCalls[i].result
                = activationPromises[activationCalls[i].promise].value

\* Calls for different pairs do not share a request
DifferentPairsApart ==
    \A i, j \in 1..Len(activationCalls) :
        ~SamePair(activationCalls[i], activationCalls[j]) =>
            activationCalls[i].promise # activationCalls[j].promise

\* The queue holds the keys of the activations in flight and nothing else
QueueIsInFlight ==
    DOMAIN activationQueue =
        { ActivationKey(activationCalls[i].offerId, activationCalls[i].cardId) :
            i \in InFlight(activationCalls) }

\* C19: while an activation for a pair (offerId, cardId) is in flight, every
\* further activateOffer call for that pair issues no new request and
\* resolves to the same outcome; calls for different pairs never share a
\* request; the pair's queue entry is removed when the activation settles,
\* so activationQueue is empty whenever no activation is in flight.
C19_Deduplicates ==
    [][/\ JoinsInFlight
       /\ SameOutcome'
       /\ DifferentPairsApart'
       /\ QueueIsInFlight']_vars

-----------------------------------------------------------------------------
(* Claims about AuthProvider.                                               *)

\* checkAuth finishes on this step, having awaited getUser
CheckAuthFinishes ==
    /\ pageLoads' = pageLoads
    /\ authCall'.op = "checkAuth"
    /\ \E request \in authRequests \ authRequests' : request.by = "checkAuth"

\* C20: if localStorage holds an auth_token for which the backend returns no
\* user (a response that is not OK, or a failed request), then when
\* checkAuth finishes the auth_token has been removed from localStorage,
\* user is null and loading is false.
C20_InvalidTokenCleared ==
    [][CheckAuthFinishes /\ authCall'.response # "ok" =>
           /\ authToken' = Null
           /\ user' = Null
           /\ loading' = FALSE]_vars

-----------------------------------------------------------------------------
(* Claims about AuthGuard.                                                  *)

\* C21: with requireAuth = true, in every state reachable through changes
\* of user and loading (login, logout, auth check finishing), the guard
\* renders its children only while loading is false and user is non-null;
\* with requireAuth = false, only while loading is false and user is null.
C21_ChildrenOnlyWhenAuthorized ==
    guardRender.output = "children" =>
        /\ guardRender.loading = FALSE
        /\ IF requireAuth THEN guardRender.user # Null
           ELSE guardRender.user = Null

-----------------------------------------------------------------------------
(* Claims about the results of optimize.                                    *)

\* The results optimize returns: the primary one and its alternatives
ResultsOf(r) ==
    { r } \cup { r.alternativeStacks[k] : k \in 1..Len(r.alternativeStacks) }

RECURSIVE SumSavings(_, _)
SumSavings(breakdown, k) ==
    IF k = 0 THEN 0 ELSE breakdown[k].savings + SumSavings(breakdown, k - 1)

Consistent(r, base) ==
    /\ 0 <= r.finalPrice
    /\ r.finalPrice <= base
    /\ r.totalSavings = base - r.finalPrice
    /\ Len(r.breakdown) = Len(r.deals)
    /\ \A k \in 1..Len(r.deals) : r.breakdown[k].dealId = r.deals[k].id
    /\ SumSavings(r.breakdown, Len(r.breakdown)) = r.totalSavings
    /\ r.deals # << >> => r.breakdown[Len(r.breakdown)].priceAfter = r.finalPrice
    /\ r.deals = << >> => r.totalSavings = 0 /\ r.finalPrice = base

=============================================================================
